---- MODULE Spec2Model ----
(***************************************************************************)
(* Verification model of the script-wizard stepping/breakpoint controller  *)
(* (src/utils/scriptUtils.ts): executeStep, executeRun,                     *)
(* executeToNextBreakpoint and toggleBreakpoint over ScriptState           *)
(* snapshots, the Spend machine they lazily attach, and the earlier        *)
(* self-contained executeStep kept in the repository.                      *)
(*                                                                         *)
(* Snapshots are objects: `snaps` is the heap of ScriptState objects the   *)
(* caller holds (index = object identity) and `spends` the heap of Spend    *)
(* instances; a snapshot's `spend` field is 0 (undefined) or an index into *)
(* `spends`.  The spread `{...state}` copies the reference, so snapshots   *)
(* of one lineage share one Spend.                                         *)
(*                                                                         *)
(* `ui` is the React state of the interpreter component, whose Run and     *)
(* Next Breakpoint handlers defer the run with setTimeout                  *)
(* (src/components/ScriptInterpreter.tsx), and `woc` the request queue of  *)
(* WocClient (src/lib/woc.ts).                                             *)
(***************************************************************************)
EXTENDS Integers, Sequences, FiniteSets, TLC

VARIABLES instructions, unlockingScriptLength, snaps, made, spends, last,
          legacy, parser, ui, woc

vars == <<instructions, unlockingScriptLength, snaps, made, spends, last,
          legacy, parser, ui, woc>>

(* ---------------- bounds of the model ---------------- *)
MaxLen == 2
MaxSnaps == 3
MaxSmall == 17

(* ---------------- program constants ---------------- *)
maxSteps == 10000

NoError == "undefined"
TooManySteps == "Execution stopped: too many steps (possible infinite loop)"

(* ---------------- instructions ---------------- *)
\* A ScriptInstruction: opcode mnemonic, numeric code, push data (bytes).
Instr(op) ==
  CASE op = "OP_0"           -> [opcode |-> op, rawOpcode |-> 0,   data |-> <<>>]
    [] op = "OP_1"           -> [opcode |-> op, rawOpcode |-> 81,  data |-> <<>>]
    [] op = "OP_NOP"         -> [opcode |-> op, rawOpcode |-> 97,  data |-> <<>>]
    [] op = "OP_DUP"         -> [opcode |-> op, rawOpcode |-> 118, data |-> <<>>]
    [] op = "OP_EQUALVERIFY" -> [opcode |-> op, rawOpcode |-> 136, data |-> <<>>]
    [] op = "OP_NOP69"       -> [opcode |-> op, rawOpcode |-> 244, data |-> <<>>]
    [] op = "OP_RESERVED"    -> [opcode |-> op, rawOpcode |-> 80,  data |-> <<>>]

\* Mnemonics the short programs are drawn from.
Ops == {"OP_0", "OP_1", "OP_EQUALVERIFY", "OP_NOP69"}

ProgramsOfLen(n) == [1..n -> {Instr(op) : op \in Ops}]
ShortPrograms == UNION {ProgramsOfLen(n) : n \in 0..MaxLen}

Program(names) == [i \in 1..Len(names) |-> Instr(names[i])]

\* An opcode the machine rejects, alone and after a push; two pushes and a
\* comparison that fails, that succeeds; a program of five instructions.
ScenarioPrograms ==
  {Program(<<"OP_RESERVED">>),
   Program(<<"OP_1", "OP_RESERVED">>),
   Program(<<"OP_0", "OP_1", "OP_EQUALVERIFY">>),
   Program(<<"OP_1", "OP_1", "OP_EQUALVERIFY">>),
   Program(<<"OP_1", "OP_1", "OP_EQUALVERIFY", "OP_0", "OP_1">>)}

\* Programs long enough to meet the step ceiling: no-ops, with the inline
\* marker nowhere, at the end, or at the start; a push of 1 and no-ops,
\* maxSteps instructions in all.
LongPrograms ==
  {[i \in 1..n |-> Instr("OP_NOP")] \o <<>> : n \in {maxSteps, maxSteps + 1}}
  \cup {[i \in 1..maxSteps |-> Instr(IF i = 1 THEN "OP_1" ELSE "OP_NOP")] \o <<>>}
  \cup {[i \in 1..(maxSteps + 1) |->
            Instr(IF i = k THEN "OP_NOP69" ELSE "OP_NOP")] \o <<>> :
          k \in {1, maxSteps + 1}}

IsLong == Len(instructions) >= maxSteps

(* ---------------- byte helpers ---------------- *)
Last(s) == s[Len(s)]

\* numberArrayToHex: two lowercase hex digits per byte (digits as 0..15).
RECURSIVE numberArrayToHexOf(_, _, _)
numberArrayToHexOf(arr, lo, hi) ==
  IF lo > hi THEN <<>>
  ELSE IF lo = hi THEN <<arr[lo] \div 16, arr[lo] % 16>>
  ELSE LET mid == (lo + hi) \div 2
       IN numberArrayToHexOf(arr, lo, mid) \o numberArrayToHexOf(arr, mid + 1, hi)

numberArrayToHex(arr) == numberArrayToHexOf(arr, 1, Len(arr))

MapHex(st) == [i \in 1..Len(st) |-> numberArrayToHex(st[i])]

\* castToBool: first nonzero byte decides; a lone trailing 0x80 is negative zero.
RECURSIVE castToBoolFrom(_, _)
castToBoolFrom(val, i) ==
  IF i > Len(val) THEN FALSE
  ELSE IF val[i] # 0 THEN ~(i = Len(val) /\ val[i] = 128)
  ELSE castToBoolFrom(val, i + 1)

\* A test that takes every sequence with a nonzero byte as true.
castToBoolAnyNonzero(val) == \E i \in 1..Len(val) : val[i] # 0

castToBool(val) == IF Len(val) = 0 THEN FALSE ELSE castToBoolFrom(val, 1)

(* ---------------- the Spend machine ---------------- *)
\* Index of the machine's next instruction in the concatenated program.
SpendIndex(m) ==
  m.programCounter + (IF m.context = "LockingScript" THEN unlockingScriptLength ELSE 0)

ContextAt(g) == IF g >= unlockingScriptLength THEN "LockingScript" ELSE "UnlockingScript"

NewSpend == [context |-> ContextAt(0), programCounter |-> 0,
             stack |-> <<>>, altStack |-> <<>>]

\* Effect of one opcode on the two stacks: ok = FALSE is a fatal condition.
Fatal(msg) == [ok |-> FALSE, msg |-> msg, stack |-> <<>>, altStack |-> <<>>]
Okay(st, alt) == [ok |-> TRUE, msg |-> NoError, stack |-> st, altStack |-> alt]

ExecOp(ins, st, alt) ==
  CASE ins.opcode = "OP_0" -> Okay(Append(st, <<>>), alt)
    [] ins.opcode = "OP_1" -> Okay(Append(st, <<1>>), alt)
    [] ins.opcode \in {"OP_NOP", "OP_NOP69"} -> Okay(st, alt)
    [] ins.opcode = "OP_PUSH" -> Okay(Append(st, ins.data), alt)
    [] ins.opcode = "OP_DUP" ->
         IF Len(st) < 1 THEN Fatal("Stack underflow")
         ELSE Okay(Append(st, Last(st)), alt)
    [] ins.opcode = "OP_EQUALVERIFY" ->
         IF Len(st) < 2 THEN Fatal("Stack underflow")
         ELSE IF st[Len(st)] # st[Len(st) - 1] THEN Fatal("Verification failed")
         ELSE Okay(SubSeq(st, 1, Len(st) - 2), alt)
    [] OTHER -> Fatal("Invalid opcode")

\* Spend.step(): executes the instruction at the counter and advances by one;
\* thrown = TRUE is the fatal condition, which leaves the machine as it was.
SpendStep(m) ==
  LET g == SpendIndex(m) IN
  IF g >= Len(instructions)
  THEN [m |-> m, thrown |-> FALSE, msg |-> NoError, canContinue |-> FALSE]
  ELSE LET r == ExecOp(instructions[g + 1], m.stack, m.altStack) IN
       IF ~r.ok
       THEN [m |-> m, thrown |-> TRUE, msg |-> r.msg, canContinue |-> FALSE]
       ELSE [m |-> [context |-> ContextAt(g + 1),
                    programCounter |-> (g + 1) -
                       (IF ContextAt(g + 1) = "LockingScript"
                        THEN unlockingScriptLength ELSE 0),
                    stack |-> r.stack, altStack |-> r.altStack],
             thrown |-> FALSE, msg |-> NoError,
             canContinue |-> (g + 1 < Len(instructions))]

(* ---------------- snapshots ---------------- *)
\* breakpoints is <<>> (undefined) or <<S>> (the Set S).
InitialState ==
  [currentIndex |-> 0, stack |-> <<>>, altStack |-> <<>>,
   isComplete |-> FALSE, isValid |-> FALSE, context |-> "UnlockingScript",
   spend |-> 0, isRunning |-> "undefined", breakpoints |-> <<>>,
   executionError |-> NoError]

\* state.breakpoints?.has(i)
HasBreakpoint(state, i) == Len(state.breakpoints) > 0 /\ i \in state.breakpoints[1]

\* the instruction at index i is the inline marker (by name or numeric code)
IsMarker(i) ==
  /\ i >= 0 /\ i < Len(instructions)
  /\ (instructions[i + 1].opcode = "OP_NOP69" \/ instructions[i + 1].rawOpcode = 69)

isBreakpoint(state, i) == HasBreakpoint(state, i) \/ IsMarker(i)

(* ---------------- executeStep ---------------- *)
\* Result of a call: ret = the returned object, arg = the argument object as
\* the call leaves it, same = the call returned its argument itself,
\* heap = the Spend heap after the call.
\* A catch block that records the error and leaves completion as it was.
StepCatchIncomplete(state, msg) ==
  [state EXCEPT !.isValid = FALSE, !.executionError = msg]

\* catch: return {...state, isComplete: true, isValid: false, executionError}
StepCatch(state, msg) ==
  [state EXCEPT !.isComplete = TRUE, !.isValid = FALSE, !.executionError = msg]

\* An index that adds the unlocking length whatever the machine's phase.
NewIndexAlwaysOffset(m) == m.programCounter + unlockingScriptLength

\* const newIndex = spend.programCounter + (spend.context === 'LockingScript'
\* ? state.unlockingScriptLength : 0)
NewIndex(m) == SpendIndex(m)

\* the try block of executeStep and its catch
StepBody(h, state) ==
    LET \* state.spend = createSpendFromState(state) assigns into the argument
        attached == IF state.spend = 0 THEN [state EXCEPT !.spend = Len(h) + 1]
                    ELSE state
        h1 == IF state.spend = 0 THEN Append(h, NewSpend) ELSE h
        sid == attached.spend
        r == SpendStep(h1[sid])
    IN IF r.thrown
       THEN [ret |-> StepCatch(attached, r.msg),
             arg |-> attached, same |-> FALSE, heap |-> h1, thrown |-> TRUE]
       ELSE
         LET m == r.m
             newIndex == NewIndex(m)
             done == ~r.canContinue \/ newIndex >= Len(instructions)
             \* castToBool(spend.stack[0]); on an empty stack the read of
             \* .length throws and the inner catch sets false
             valid == IF done /\ Len(m.stack) > 0 THEN castToBool(m.stack[1])
                      ELSE FALSE
         IN [ret |-> [attached EXCEPT !.currentIndex = newIndex,
                                      !.stack = MapHex(m.stack),
                                      !.altStack = MapHex(m.altStack),
                                      !.context = m.context,
                                      !.isComplete = done,
                                      !.isValid = valid,
                                      !.executionError = NoError],
             arg |-> attached, same |-> FALSE,
             heap |-> [h1 EXCEPT ![sid] = m], thrown |-> FALSE]

\* A step without the early return on a complete snapshot.
executeStepUnguarded(h, state) == StepBody(h, state)

\* if (state.isComplete) return state; otherwise the try block
executeStep(h, state) ==
  IF state.isComplete
  THEN [ret |-> state, arg |-> state, same |-> TRUE, heap |-> h,
        thrown |-> FALSE]
  ELSE StepBody(h, state)

(* ---------------- executeRun ---------------- *)
\* Loop state: cur = currentState, stepCount, heap, returned = a return
\* statement inside the loop was taken (cur is the returned object), found =
\* foundBreakpoint.  calls counts the executeStep calls made; firstStep and
\* lastStep keep what the first and the latest of them returned, stepArg the
\* argument of the latest (<<>>: none) and thrown whether its machine raised
\* a fatal condition.
LoopStart(h, state) ==
  [cur |-> [state EXCEPT !.isRunning = "true"], stepCount |-> 0, calls |-> 0,
   heap |-> h, returned |-> FALSE, found |-> FALSE,
   firstStep |-> <<>>, lastStep |-> <<>>, stepArg |-> <<>>, thrown |-> FALSE]

\* A step that returns from the run whether or not it failed.
StepInLoopReturns(ls) ==
  LET r == executeStep(ls.heap, ls.cur)
  IN [ls EXCEPT !.stepCount = @ + 1, !.calls = @ + 1, !.heap = r.heap,
                !.firstStep = IF @ = <<>> THEN <<r.ret>> ELSE @,
                !.lastStep = <<r.ret>>,
                !.stepArg = <<ls.cur>>, !.thrown = r.thrown,
                !.cur = [r.ret EXCEPT !.isRunning = "false"],
                !.returned = TRUE]

\* const nextState = executeStep(currentState); currentState = {...nextState,
\* isRunning: true}; stepCount++; return on executionError
StepInLoop(ls) ==
  LET r == executeStep(ls.heap, ls.cur)
      cs == [r.ret EXCEPT !.isRunning = "true"]
      l1 == [ls EXCEPT !.stepCount = @ + 1, !.calls = @ + 1, !.heap = r.heap,
                       !.firstStep = IF @ = <<>> THEN <<r.ret>> ELSE @,
                       !.lastStep = <<r.ret>>,
                       !.stepArg = <<ls.cur>>, !.thrown = r.thrown]
  IN IF cs.executionError # NoError
     THEN [l1 EXCEPT !.cur = [cs EXCEPT !.isRunning = "false"],
                     !.returned = TRUE]
     ELSE [l1 EXCEPT !.cur = cs]

RunCond(ls) == ~ls.returned /\ ~ls.cur.isComplete /\ ls.stepCount < maxSteps

\* A loop body that tests the explicit set only, not the inline marker.
RunBodyNoMarker(ls) ==
  IF HasBreakpoint(ls.cur, ls.cur.currentIndex)
  THEN [ls EXCEPT !.cur.isRunning = "false", !.returned = TRUE]
  ELSE StepInLoop(ls)

\* one iteration of the while loop of executeRun (executeStep catches every
\* error itself, so the catch block around the call is never entered)
RunBody(ls) ==
  IF HasBreakpoint(ls.cur, ls.cur.currentIndex)
  THEN [ls EXCEPT !.cur.isRunning = "false", !.returned = TRUE]
  ELSE IF IsMarker(ls.cur.currentIndex)
  THEN [ls EXCEPT !.cur.isRunning = "false", !.returned = TRUE]
  ELSE StepInLoop(ls)

\* n iterations of the loop (fewer when its condition fails first)
RECURSIVE RunLoop(_, _)
RunLoop(ls, n) ==
  IF ~RunCond(ls) \/ n = 0 THEN ls
  ELSE IF n = 1 THEN RunBody(ls)
  ELSE RunLoop(RunLoop(ls, n \div 2), n - (n \div 2))

\* An epilogue without the ceiling test.
AfterLoopNoCeiling(ls) ==
  IF ls.returned THEN ls ELSE [ls EXCEPT !.cur.isRunning = "false"]

\* An epilogue whose ceiling branch records the message only.
AfterLoopMessageOnly(ls) ==
  IF ls.returned THEN ls
  ELSE IF ls.stepCount >= maxSteps
  THEN [ls EXCEPT !.cur = [@ EXCEPT !.isRunning = "false",
                                    !.executionError = TooManySteps]]
  ELSE [ls EXCEPT !.cur.isRunning = "false"]

\* An epilogue whose ceiling branch leaves the validity flag as it is.
AfterLoopKeepsValidity(ls) ==
  IF ls.returned THEN ls
  ELSE IF ls.stepCount >= maxSteps
  THEN [ls EXCEPT !.cur = [@ EXCEPT !.isComplete = TRUE,
                                    !.isRunning = "false",
                                    !.executionError = TooManySteps]]
  ELSE [ls EXCEPT !.cur.isRunning = "false"]

\* the code after either loop: the ceiling test, then the plain return
AfterLoop(ls) ==
  IF ls.returned THEN ls
  ELSE IF ls.stepCount >= maxSteps
  THEN [ls EXCEPT !.cur = [@ EXCEPT !.isComplete = TRUE, !.isValid = FALSE,
                                    !.isRunning = "false",
                                    !.executionError = TooManySteps]]
  ELSE [ls EXCEPT !.cur.isRunning = "false"]

executeRun(h, state) ==
  IF state.isComplete
  THEN [LoopStart(h, state) EXCEPT !.cur.isRunning = "false", !.returned = TRUE]
  ELSE AfterLoop(RunLoop(LoopStart(h, state), maxSteps))

(* ---------------- toggleBreakpoint ---------------- *)
\* A toggle that adds the index and never deletes it.
toggleBreakpointAddOnly(state, instructionIndex) ==
  LET old == IF Len(state.breakpoints) = 0 THEN {} ELSE state.breakpoints[1]
  IN [state EXCEPT !.breakpoints = <<old \cup {instructionIndex}>>]

\* A toggle that starts from an empty set instead of a copy of the old one.
toggleBreakpointFreshSet(state, instructionIndex) ==
  [state EXCEPT !.breakpoints = <<{instructionIndex}>>]

\* new Set(state.breakpoints || []), has/delete/add, {...state, breakpoints}
toggleBreakpoint(state, instructionIndex) ==
  LET old == IF Len(state.breakpoints) = 0 THEN {} ELSE state.breakpoints[1]
  IN [state EXCEPT !.breakpoints =
        <<IF instructionIndex \in old THEN old \ {instructionIndex}
          ELSE old \cup {instructionIndex}>>]

(* ---------------- executeToNextBreakpoint ---------------- *)
\* A first step that is not counted in stepCount.
AdvancePastUncounted(ls) ==
  IF isBreakpoint(ls.cur, ls.cur.currentIndex)
  THEN LET s == StepInLoop(ls)
       IN IF ~s.returned /\ s.cur.isComplete
          THEN [s EXCEPT !.cur.isRunning = "false", !.returned = TRUE]
          ELSE [s EXCEPT !.stepCount = 0]
  ELSE ls

\* No first step: the search starts at the current position.
AdvancePastSkipped(ls) == ls

\* if (isBreakpoint(currentState, currentIndex)) { step; return on error or
\* completion }
AdvancePast(ls) ==
  IF isBreakpoint(ls.cur, ls.cur.currentIndex)
  THEN LET s == StepInLoop(ls)
       IN IF ~s.returned /\ s.cur.isComplete
          THEN [s EXCEPT !.cur.isRunning = "false", !.returned = TRUE]
          ELSE s
  ELSE ls

NextCond(ls) == RunCond(ls) /\ ~ls.found

NextBody(ls) ==
  IF isBreakpoint(ls.cur, ls.cur.currentIndex)
  THEN [ls EXCEPT !.found = TRUE]
  ELSE StepInLoop(ls)

RECURSIVE NextLoop(_, _)
NextLoop(ls, n) ==
  IF ~NextCond(ls) \/ n = 0 THEN ls
  ELSE IF n = 1 THEN NextBody(ls)
  ELSE NextLoop(NextLoop(ls, n \div 2), n - (n \div 2))

executeToNextBreakpoint(h, state) ==
  IF state.isComplete
  THEN [LoopStart(h, state) EXCEPT !.cur.isRunning = "false", !.returned = TRUE]
  ELSE AfterLoop(NextLoop(AdvancePast(LoopStart(h, state)), maxSteps))

(* ---------------- findNextBreakpoint ---------------- *)
\* for (let i = lo; i < hi; i++) if (isBreakpoint(state, i)) return i; the
\* scan is evaluated by halves; -1 is null
RECURSIVE ScanForBreakpoint(_, _, _)
ScanForBreakpoint(state, lo, hi) ==
  IF lo >= hi THEN -1
  ELSE IF hi = lo + 1 THEN IF isBreakpoint(state, lo) THEN lo ELSE -1
  ELSE LET mid == (lo + hi) \div 2
           first == ScanForBreakpoint(state, lo, mid)
       IN IF first # -1 THEN first ELSE ScanForBreakpoint(state, mid, hi)

\* A scan that starts at the current index itself.
findNextBreakpointFromCurrent(state) ==
  ScanForBreakpoint(state, state.currentIndex, Len(instructions))

\* const startIndex = state.currentIndex + 1; the loop; return null
findNextBreakpoint(state) ==
  ScanForBreakpoint(state, state.currentIndex + 1, Len(instructions))

(* ---------------- script text ---------------- *)
\* A token or a hex string is a sequence of characters (one-character
\* strings); a byte array is a sequence of 0..255.
Digits == <<"0", "1", "2", "3", "4", "5", "6", "7", "8", "9">>
LowerLetters == <<"a", "b", "c", "d", "e", "f", "g", "h", "i", "j", "k", "l", "m",
                  "n", "o", "p", "q", "r", "s", "t", "u", "v", "w", "x", "y", "z">>
UpperLetters == <<"A", "B", "C", "D", "E", "F", "G", "H", "I", "J", "K", "L", "M",
                  "N", "O", "P", "Q", "R", "S", "T", "U", "V", "W", "X", "Y", "Z">>

IndexIn(seq, c) == CHOOSE i \in 1..Len(seq) : seq[i] = c

\* \d and [0-9a-fA-F]
DigitSet == {Digits[i] : i \in 1..Len(Digits)}
HexCharSet == DigitSet \cup {LowerLetters[i] : i \in 1..6}
              \cup {UpperLetters[i] : i \in 1..6}
IsDigit(c) == c \in DigitSet
IsHexChar(c) == c \in HexCharSet

\* String.prototype.toLowerCase / toUpperCase, one character
LowerOf == [c \in {UpperLetters[i] : i \in 1..Len(UpperLetters)} |->
              LowerLetters[IndexIn(UpperLetters, c)]]
UpperOf == [c \in {LowerLetters[i] : i \in 1..Len(LowerLetters)} |->
              UpperLetters[IndexIn(LowerLetters, c)]]
ToLowerChar(c) == IF c \in DOMAIN LowerOf THEN LowerOf[c] ELSE c
ToUpperChar(c) == IF c \in DOMAIN UpperOf THEN UpperOf[c] ELSE c
toLowerCase(s) == [i \in 1..Len(s) |-> ToLowerChar(s[i])] \o <<>>
toUpperCase(s) == [i \in 1..Len(s) |-> ToUpperChar(s[i])] \o <<>>

\* the characters of a token as one string
RECURSIVE Str(_)
Str(cs) == IF cs = <<>> THEN "" ELSE cs[1] \o Str(Tail(cs))

\* value of a hexadecimal digit, either case
HexValOf == [c \in HexCharSet |->
               IF c \in DigitSet THEN IndexIn(Digits, c) - 1
               ELSE IndexIn(LowerLetters, ToLowerChar(c)) + 9]
HexVal(c) == HexValOf[c]

\* parseInt(pair, 16) of the two characters pair = c1 c2, stored into a
\* Uint8Array element: the longest hexadecimal prefix, NaN stored as 0
ParseHexPair(c1, c2) ==
  IF ~IsHexChar(c1) THEN 0
  ELSE IF ~IsHexChar(c2) THEN HexVal(c1)
  ELSE 16 * HexVal(c1) + HexVal(c2)

\* /^0x/i.test(s)
Has0x(s) == Len(s) >= 2 /\ s[1] = "0" /\ s[2] \in {"x", "X"}

\* s.replace(/^0x/i, '')
Strip0x(s) == IF Has0x(s) THEN SubSeq(s, 3, Len(s)) ELSE s

\* /^[0-9a-fA-F]+$/.test(s)
IsAllHex(s) == Len(s) > 0 /\ \A i \in 1..Len(s) : IsHexChar(s[i])

\* /^-?\d+$/.test(s)
IsDecimal(s) ==
  LET d == IF Len(s) > 0 /\ s[1] = "-" THEN Tail(s) ELSE s
  IN Len(d) > 0 /\ \A i \in 1..Len(d) : IsDigit(d[i])

\* hexToUint8Array: new Uint8Array(cleanHex.length / 2) has the whole part of
\* the quotient as its length; a store past the end is ignored
hexToUint8Array(hex) ==
  LET cleanHex == toLowerCase(Strip0x(hex))
  IN [k \in 1..(Len(cleanHex) \div 2) |->
        ParseHexPair(cleanHex[2 * k - 1], cleanHex[2 * k])] \o <<>>

\* uint8ArrayToHex: two lowercase hexadecimal digits per byte
HexDigitChars == Digits \o SubSeq(LowerLetters, 1, 6)

RECURSIVE uint8ArrayToHex(_)
uint8ArrayToHex(arr) ==
  IF arr = <<>> THEN <<>>
  ELSE <<HexDigitChars[(arr[1] \div 16) + 1], HexDigitChars[(arr[1] % 16) + 1]>>
       \o uint8ArrayToHex(Tail(arr))

\* parseInt(s, 16) of a string of one or two characters: the longest
\* hexadecimal prefix, NaN when there is none
NaN == -1

ParseIntHex(s) ==
  IF ~IsHexChar(s[1]) THEN NaN
  ELSE IF Len(s) = 1 \/ ~IsHexChar(s[2]) THEN HexVal(s[1])
  ELSE 16 * HexVal(s[1]) + HexVal(s[2])

\* isTruthy: the loop from character i on (i counted from 1); NaN !== 0
RECURSIVE isTruthyFrom(_, _)
isTruthyFrom(normalizedData, i) ==
  IF i > Len(normalizedData) THEN FALSE
  ELSE LET byte == ParseIntHex(SubSeq(normalizedData, i,
                      IF i + 1 > Len(normalizedData) THEN i ELSE i + 1))
       IN IF byte # 0
          THEN ~(i - 1 = Len(normalizedData) - 2 /\ byte = 128)
          ELSE isTruthyFrom(normalizedData, i + 2)

isTruthy(data) ==
  LET normalizedData == toLowerCase(data)
  IN IF normalizedData = <<>> \/ normalizedData = <<"0", "0">> THEN FALSE
     ELSE isTruthyFrom(normalizedData, 1)

(* ---------------- script numbers ---------------- *)
\* A JavaScript number holding an integer: its sign and its magnitude as
\* little-endian base-256 digits without leading zero digits, so that values
\* of 2^31 and more have a representation.
RECURSIVE Normalize(_)
Normalize(mag) ==
  IF mag # <<>> /\ Last(mag) = 0 THEN Normalize(SubSeq(mag, 1, Len(mag) - 1))
  ELSE mag

\* mag * m + carry
RECURSIVE MulAdd(_, _, _)
MulAdd(mag, m, carry) ==
  IF mag = <<>>
  THEN IF carry = 0 THEN <<>>
       ELSE <<carry % 256>> \o MulAdd(<<>>, m, carry \div 256)
  ELSE <<(mag[1] * m + carry) % 256>>
       \o MulAdd(Tail(mag), m, (mag[1] * m + carry) \div 256)

RECURSIVE DigitsValue(_, _)
DigitsValue(ds, acc) ==
  IF ds = <<>> THEN acc
  ELSE DigitsValue(Tail(ds), MulAdd(acc, 10, HexVal(ds[1])))

\* parseInt of a token that matches -?\d+
parseInt(s) ==
  [neg |-> s[1] = "-",
   mag |-> Normalize(DigitsValue(IF s[1] = "-" THEN Tail(s) ELSE s, <<>>))]

\* the number k, for k within TLC's integers
FromInt(k) == [neg |-> k < 0, mag |-> MulAdd(<<>>, 0, IF k < 0 THEN -k ELSE k)]

\* a === b on numbers (-0 === 0)
NumEq(a, b) == a.mag = b.mag /\ (a.mag = <<>> \/ a.neg = b.neg)

\* value >>= 8 on a number: ToInt32, which keeps the low 32 bits as a signed
\* value, then an arithmetic shift
ShiftRight8(mag) ==
  LET b(i) == IF i <= Len(mag) THEN mag[i] ELSE 0
  IN b(2) + 256 * b(3) + 65536 * (IF b(4) >= 128 THEN b(4) - 256 ELSE b(4))

\* while (value > 0) { bytes.push(value & 0xff); value >>= 8 } once value
\* is a 32-bit integer
RECURSIVE EncodeLoop(_)
EncodeLoop(value) ==
  IF value > 0 THEN <<value % 256>> \o EncodeLoop(value \div 256) ELSE <<>>

\* encodeScriptNumber: the first turn of the loop works on the number itself
\* (value & 0xff is its low byte), the others on the shifted 32-bit value
encodeScriptNumber(num) ==
  IF num.mag = <<>> THEN <<>>
  ELSE LET bytes == <<num.mag[1]>> \o EncodeLoop(ShiftRight8(num.mag))
           n == Len(bytes)
       IN IF bytes[n] >= 128 THEN Append(bytes, IF num.neg THEN 128 ELSE 0)
          ELSE IF num.neg THEN [bytes EXCEPT ![n] = @ + 128]
          ELSE bytes

\* decodeScriptNumber: result = result * 256 + byte from the last byte down,
\* the sign bit masked out of the last byte
decodeScriptNumber(data) ==
  IF data = <<>> THEN [neg |-> FALSE, mag |-> <<>>]
  ELSE [neg |-> data[Len(data)] >= 128,
        mag |-> Normalize([i \in 1..Len(data) |->
                             IF i = Len(data) THEN data[i] % 128 ELSE data[i]])]

(* ---------------- the opcode table ---------------- *)
\* OP: mnemonics and their numeric codes, and the reverse lookup.
OPTable ==
  << <<"OP_0", 0>>, <<"OP_FALSE", 0>>, <<"OP_PUSHDATA1", 76>>,
     <<"OP_PUSHDATA2", 77>>, <<"OP_PUSHDATA4", 78>>, <<"OP_1NEGATE", 79>>,
     <<"OP_RESERVED", 80>>, <<"OP_1", 81>>, <<"OP_TRUE", 81>>, <<"OP_2", 82>>,
     <<"OP_3", 83>>, <<"OP_4", 84>>, <<"OP_5", 85>>, <<"OP_6", 86>>,
     <<"OP_7", 87>>, <<"OP_8", 88>>, <<"OP_9", 89>>, <<"OP_10", 90>>,
     <<"OP_11", 91>>, <<"OP_12", 92>>, <<"OP_13", 93>>, <<"OP_14", 94>>,
     <<"OP_15", 95>>, <<"OP_16", 96>>, <<"OP_NOP", 97>>, <<"OP_DUP", 118>>,
     <<"OP_EQUALVERIFY", 136>>, <<"OP_NOP69", 244>> >>

\* OP[key] for a mnemonic: its code, or -1 for undefined
OP(key) ==
  IF \E i \in 1..Len(OPTable) : OPTable[i][1] = key
  THEN OPTable[CHOOSE i \in 1..Len(OPTable) : OPTable[i][1] = key][2]
  ELSE -1

\* OP[code] for a number: its first mnemonic, or "" for undefined
OPName(code) ==
  IF \E i \in 1..Len(OPTable) : OPTable[i][2] = code
  THEN OPTable[CHOOSE i \in 1..Len(OPTable) :
                 /\ OPTable[i][2] = code
                 /\ \A j \in 1..(i - 1) : OPTable[j][2] # code][1]
  ELSE ""

(* ---------------- parseScriptManual ---------------- *)
\* A parsed instruction: rawOpcode and half together are the number
\* rawOpcode + 1/2 (half) or rawOpcode; data and pushData are <<>> (absent)
\* or <<value>>.  Above: the number whole + 1/2 (half) or whole exceeds k.
Above(whole, half, k) == whole > k \/ (whole = k /\ half)

getOpcodeName(opcode, half) ==
  LET pushDataUsed ==
        IF ~Above(opcode, half, 75) THEN "OP_PUSH"
        ELSE IF ~Above(opcode, half, 255) THEN "OP_PUSHDATA1"
        ELSE IF ~Above(opcode, half, 65535) THEN "OP_PUSHDATA2"
        ELSE "OP_PUSHDATA4"
  IN IF ~half /\ OPName(opcode) # "" THEN OPName(opcode) ELSE pushDataUsed

\* A size class chosen with < in place of <=.
PushCodeStrict(whole, half) ==
  IF whole < 75 THEN <<whole, half>>
  ELSE IF whole < 255 THEN <<OP("OP_PUSHDATA1"), FALSE>>
  ELSE IF whole < 65535 THEN <<OP("OP_PUSHDATA2"), FALSE>>
  ELSE <<OP("OP_PUSHDATA4"), FALSE>>

\* the opcode chosen for dataLength = whole + half/2
PushCode(whole, half) ==
  IF ~Above(whole, half, 75) THEN <<whole, half>>
  ELSE IF ~Above(whole, half, 255) THEN <<OP("OP_PUSHDATA1"), FALSE>>
  ELSE IF ~Above(whole, half, 65535) THEN <<OP("OP_PUSHDATA2"), FALSE>>
  ELSE <<OP("OP_PUSHDATA4"), FALSE>>

Parsed(ins) == [kind |-> "ins", ins |-> ins, msg |-> NoError]

\* the hex branch
ParseHex(trimmed) ==
  LET cleanHex == toLowerCase(Strip0x(trimmed))
      opcode == PushCode(Len(cleanHex) \div 2, Len(cleanHex) % 2 = 1)
  IN Parsed([opcode |-> getOpcodeName(opcode[1], opcode[2]),
             rawOpcode |-> opcode[1], half |-> opcode[2],
             data |-> <<cleanHex>>, pushData |-> <<hexToUint8Array(cleanHex)>>])

\* the name `OP_${num}` of a number in 1..16
SmallName(v) ==
  "OP_" \o (IF v >= 10 THEN "1" \o Digits[v - 9] ELSE Digits[v + 1])

\* the decimal branch
ParseDecimal(trimmed) ==
  LET num == parseInt(trimmed)
      scriptNum == encodeScriptNumber(num)
  IN IF NumEq(num, FromInt(-1))
     THEN Parsed([opcode |-> "OP_1NEGATE", rawOpcode |-> OP("OP_1NEGATE"),
                  half |-> FALSE, data |-> <<>>, pushData |-> <<>>])
     ELSE IF NumEq(num, FromInt(0))
     THEN Parsed([opcode |-> "OP_0", rawOpcode |-> OP("OP_0"),
                  half |-> FALSE, data |-> <<>>, pushData |-> <<>>])
     ELSE IF ~num.neg /\ Len(num.mag) = 1 /\ num.mag[1] <= 16
     THEN Parsed([opcode |-> SmallName(num.mag[1]),
                  rawOpcode |-> OP("OP_1") + (num.mag[1] - 1),
                  half |-> FALSE, data |-> <<>>, pushData |-> <<>>])
     ELSE Parsed([opcode |-> getOpcodeName(Len(scriptNum), FALSE),
                  rawOpcode |-> Len(scriptNum), half |-> FALSE,
                  data |-> <<uint8ArrayToHex(scriptNum)>>,
                  pushData |-> <<scriptNum>>])

\* the mnemonic branch
ParseOpcode(trimmed) ==
  LET opcodeKey == Str(toUpperCase(trimmed))
  IN IF OP(opcodeKey) # -1
     THEN Parsed([opcode |-> opcodeKey, rawOpcode |-> OP(opcodeKey),
                  half |-> FALSE, data |-> <<>>, pushData |-> <<>>])
     ELSE [kind |-> "throw", ins |-> <<>>, msg |-> "Unknown opcode: " \o opcodeKey]

\* one turn of the for loop: skip the line, push an instruction, or throw
ParseLine(trimmed) ==
  IF trimmed = <<>> \/ (Len(trimmed) >= 2 /\ trimmed[1] = "/" /\ trimmed[2] = "/")
  THEN [kind |-> "skip", ins |-> <<>>, msg |-> NoError]
  ELSE IF Has0x(trimmed) \/ IsAllHex(trimmed) THEN ParseHex(trimmed)
  ELSE IF IsDecimal(trimmed) THEN ParseDecimal(trimmed)
  ELSE ParseOpcode(trimmed)

\* the loop from line i on, acc the instructions pushed so far; a throw
\* leaves the function without a return value
RECURSIVE ParseFrom(_, _, _)
ParseFrom(lines, i, acc) ==
  IF i > Len(lines)
  THEN [thrown |-> FALSE, message |-> NoError, instructions |-> acc]
  ELSE LET r == ParseLine(lines[i])
       IN IF r.kind = "throw"
          THEN [thrown |-> TRUE, message |-> r.msg, instructions |-> <<>>]
          ELSE ParseFrom(lines, i + 1,
                         IF r.kind = "ins" THEN Append(acc, r.ins) ELSE acc)

parseScriptManual(lines) == ParseFrom(lines, 1, <<>>)

\* parseScript on the token list of a script text, on the path taken when
\* Script.fromASM rejects the text: the catch block calls parseScriptManual
parseScript(lines) == parseScriptManual(lines)

\* const lines = scriptText.trim().split(/[\n ]+/).filter(line =>
\* line.trim() !== ''): the maximal runs of characters other than newline and
\* space, for a text of printable characters, spaces and newlines
IsSeparator(c) == c \in {" ", "\n"}

RECURSIVE SplitFrom(_, _, _, _)
SplitFrom(scriptText, i, cur, acc) ==
  IF i > Len(scriptText) THEN IF cur = <<>> THEN acc ELSE Append(acc, cur)
  ELSE IF IsSeparator(scriptText[i])
  THEN SplitFrom(scriptText, i + 1, <<>>,
                 IF cur = <<>> THEN acc ELSE Append(acc, cur))
  ELSE SplitFrom(scriptText, i + 1, Append(cur, scriptText[i]), acc)

SplitLines(scriptText) == SplitFrom(scriptText, 1, <<>>, <<>>)

(* ---------------- the earlier parseScript and executeStep ---------------- *)
\* The self-contained component: an instruction is {opcode, data?} (data is
\* <<>> when absent, <<string>> otherwise), a stack element is a string (a
\* sequence of characters), there is no Spend and no catch of its own.
LegacyIns(opcode, data) == [opcode |-> opcode, data |-> data]

\* one turn of the loop of the earlier parseScript on a trimmed line: <<>>
\* for a skipped line, otherwise the instruction pushed
legacyParseLine(trimmed) ==
  IF trimmed = <<>> \/ (Len(trimmed) >= 2 /\ trimmed[1] = "/" /\ trimmed[2] = "/")
  THEN <<>>
  ELSE IF (Len(trimmed) >= 2 /\ trimmed[1] = "0" /\ trimmed[2] = "x")
          \/ IsAllHex(trimmed)
  THEN <<LegacyIns("OP_PUSHDATA", <<trimmed>>)>>
  ELSE IF \A i \in 1..Len(trimmed) : IsDigit(trimmed[i])
  THEN LET num == parseInt(trimmed)
       IN IF Len(num.mag) = 1 /\ num.mag[1] >= 1 /\ num.mag[1] <= 16
          THEN <<LegacyIns(SmallName(num.mag[1]), <<>>)>>
          ELSE <<LegacyIns("OP_PUSHDATA", <<trimmed>>)>>
  ELSE <<LegacyIns(Str(toUpperCase(trimmed)), <<>>)>>

\* the earlier parseScript on the non-blank lines of a text (it splits at
\* newlines only and never throws)
RECURSIVE legacyParseScript(_)
legacyParseScript(lines) ==
  IF lines = <<>> THEN <<>>
  ELSE legacyParseLine(lines[1]) \o legacyParseScript(Tail(lines))

\* the value of the longest prefix of hexadecimal digits of s from i on
RECURSIVE HexPrefixValue(_, _, _)
HexPrefixValue(s, i, acc) ==
  IF i > Len(s) \/ ~IsHexChar(s[i]) THEN acc
  ELSE HexPrefixValue(s, i + 1, 16 * acc + HexVal(s[i]))

\* parseInt(s || '0', 16): an optional sign, an optional 0x, the longest
\* prefix of hexadecimal digits; <<>> is NaN, <<n>> the number n
LegacyParseInt(popped) ==
  LET s == IF popped = <<>> THEN <<"0">> ELSE popped
      signed == s[1] \in {"-", "+"}
      digits == Strip0x(IF signed THEN Tail(s) ELSE s)
  IN IF digits = <<>> \/ ~IsHexChar(digits[1]) THEN <<>>
     ELSE <<(IF s[1] = "-" THEN -1 ELSE 1) * HexPrefixValue(digits, 1, 0)>>

\* n.toString(16) for n >= 0
RECURSIVE HexString(_)
HexString(n) ==
  IF n < 16 THEN <<HexDigitChars[n + 1]>>
  ELSE HexString(n \div 16) \o <<HexDigitChars[(n % 16) + 1]>>

\* v.toString(16).padStart(2, '0')
LegacyToHex(v) ==
  LET str == IF v = <<>> THEN <<"N", "a", "N">>
             ELSE IF v[1] < 0 THEN <<"-">> \o HexString(-v[1])
             ELSE HexString(v[1])
  IN IF Len(str) < 2 THEN <<"0">> \o str ELSE str

\* OP_ADD (sign = 1) and OP_SUB (sign = -1): b is popped first, then a
LegacyArith(name, sign, st, alt) ==
  IF Len(st) < 2 THEN Fatal(name \o ": Stack underflow")
  ELSE LET b == LegacyParseInt(st[Len(st)])
           a == LegacyParseInt(st[Len(st) - 1])
           r == IF a = <<>> \/ b = <<>> THEN <<>> ELSE <<a[1] + sign * b[1]>>
       IN Okay(Append(SubSeq(st, 1, Len(st) - 2), LegacyToHex(r)), alt)

\* An OP_EQUAL that pushes '01' whatever it popped.
LegacyEqualAlwaysTrue(st, alt) ==
  IF Len(st) < 2 THEN Fatal("OP_EQUAL: Stack underflow")
  ELSE Okay(Append(SubSeq(st, 1, Len(st) - 2), <<"0", "1">>), alt)

\* An OP_EQUAL that pushes nothing when the operands are equal.
LegacyEqualPushesNothing(st, alt) ==
  IF Len(st) < 2 THEN Fatal("OP_EQUAL: Stack underflow")
  ELSE Okay(IF st[Len(st) - 1] = st[Len(st)] THEN SubSeq(st, 1, Len(st) - 2)
            ELSE Append(SubSeq(st, 1, Len(st) - 2), <<"0", "0">>), alt)

\* OP_EQUAL: newStack.push(eq_a === eq_b ? '01' : '00')
LegacyEqual(st, alt) ==
  IF Len(st) < 2 THEN Fatal("OP_EQUAL: Stack underflow")
  ELSE Okay(Append(SubSeq(st, 1, Len(st) - 2),
                   IF st[Len(st) - 1] = st[Len(st)] THEN <<"0", "1">>
                   ELSE <<"0", "0">>), alt)

\* An OP_CHECKSIG that pushes '00' for the signature 00.
LegacyCheckSigTestsSignature(st, alt) ==
  IF Len(st) < 2 THEN Fatal("OP_CHECKSIG: Stack underflow")
  ELSE Okay(Append(SubSeq(st, 1, Len(st) - 2),
                   IF st[Len(st) - 1] = <<"0", "0">> THEN <<"0", "0">>
                   ELSE <<"0", "1">>), alt)

\* OP_CHECKSIG: pubkey and signature are popped and not looked at
LegacyCheckSig(st, alt) ==
  IF Len(st) < 2 THEN Fatal("OP_CHECKSIG: Stack underflow")
  ELSE Okay(Append(SubSeq(st, 1, Len(st) - 2), <<"0", "1">>), alt)

\* An OP_EQUALVERIFY that leaves its operands on the stack when they are equal.
LegacyEqualVerifyPeeks(st, alt) ==
  IF Len(st) < 2 THEN Fatal("OP_EQUALVERIFY: Stack underflow")
  ELSE IF st[Len(st) - 1] # st[Len(st)]
  THEN Fatal("OP_EQUALVERIFY: Values not equal")
  ELSE Okay(st, alt)

\* OP_EQUALVERIFY: both operands are popped, then compared
LegacyEqualVerify(st, alt) ==
  IF Len(st) < 2 THEN Fatal("OP_EQUALVERIFY: Stack underflow")
  ELSE IF st[Len(st) - 1] # st[Len(st)]
  THEN Fatal("OP_EQUALVERIFY: Values not equal")
  ELSE Okay(SubSeq(st, 1, Len(st) - 2), alt)

\* OP_TOALTSTACK: newAltStack.push(newStack.pop())
LegacyToAltStack(st, alt) ==
  IF Len(st) < 1 THEN Fatal("OP_TOALTSTACK: Stack underflow")
  ELSE Okay(SubSeq(st, 1, Len(st) - 1), Append(alt, Last(st)))

\* An OP_FROMALTSTACK that copies the top of the alt stack and leaves it there.
LegacyFromAltStackCopies(st, alt) ==
  IF Len(alt) < 1 THEN Fatal("OP_FROMALTSTACK: Alt stack underflow")
  ELSE Okay(Append(st, Last(alt)), alt)

\* OP_FROMALTSTACK: newStack.push(newAltStack.pop())
LegacyFromAltStack(st, alt) ==
  IF Len(alt) < 1 THEN Fatal("OP_FROMALTSTACK: Alt stack underflow")
  ELSE Okay(Append(st, Last(alt)), SubSeq(alt, 1, Len(alt) - 1))

\* the switch of the earlier executeStep over newStack and newAltStack
LegacyExec(ins, st, alt) ==
  CASE ins.opcode \in {"OP_1", "OP_TRUE"} -> Okay(Append(st, <<"0", "1">>), alt)
    [] ins.opcode \in {"OP_0", "OP_FALSE"} -> Okay(Append(st, <<"0", "0">>), alt)
    [] ins.opcode = "OP_2" -> Okay(Append(st, <<"0", "2">>), alt)
    [] ins.opcode = "OP_3" -> Okay(Append(st, <<"0", "3">>), alt)
    [] ins.opcode = "OP_4" -> Okay(Append(st, <<"0", "4">>), alt)
    [] ins.opcode = "OP_5" -> Okay(Append(st, <<"0", "5">>), alt)
    [] ins.opcode = "OP_PUSHDATA" ->
         IF ins.data # <<>> /\ ins.data[1] # <<>>
         THEN Okay(Append(st, ins.data[1]), alt)
         ELSE Okay(st, alt)
    [] ins.opcode = "OP_DUP" ->
         IF Len(st) < 1 THEN Fatal("OP_DUP: Stack underflow")
         ELSE Okay(Append(st, Last(st)), alt)
    [] ins.opcode = "OP_ADD" -> LegacyArith("OP_ADD", 1, st, alt)
    [] ins.opcode = "OP_SUB" -> LegacyArith("OP_SUB", -1, st, alt)
    [] ins.opcode = "OP_EQUAL" -> LegacyEqual(st, alt)
    [] ins.opcode = "OP_EQUALVERIFY" -> LegacyEqualVerify(st, alt)
    [] ins.opcode = "OP_HASH160" ->
         IF Len(st) < 1 THEN Fatal("OP_HASH160: Stack underflow")
         ELSE Okay(Append(SubSeq(st, 1, Len(st) - 1),
                          <<"h", "a", "s", "h", "1", "6", "0", "(">>
                          \o Last(st) \o <<")">>), alt)
    [] ins.opcode = "OP_CHECKSIG" -> LegacyCheckSig(st, alt)
    [] ins.opcode = "OP_TOALTSTACK" -> LegacyToAltStack(st, alt)
    [] ins.opcode = "OP_FROMALTSTACK" -> LegacyFromAltStack(st, alt)
    [] OTHER -> Fatal("Unknown opcode: " \o ins.opcode)

\* A failure that leaves the counter advanced.
LegacyThrowAdvanced(state, msg) ==
  [ret |-> [state EXCEPT !.currentIndex = @ + 1], threw |-> TRUE,
   message |-> msg]

\* threw = TRUE: the Error leaves the function (catch: console.error, throw
\* error) and the caller keeps the snapshot it passed; message is its text
LegacyThrow(state, msg) == [ret |-> state, threw |-> TRUE, message |-> msg]

legacyExecuteStep(state) ==
  IF state.isComplete \/ state.currentIndex >= Len(instructions)
  THEN [ret |-> state, threw |-> FALSE, message |-> NoError]
  ELSE
    LET r == LegacyExec(instructions[state.currentIndex + 1],
                        state.stack, state.altStack)
        nextIndex == state.currentIndex + 1
        isComplete == nextIndex >= Len(instructions)
        isValid == /\ isComplete
                   /\ Len(r.stack) = 1
                   /\ r.stack[1] # <<"0", "0">>
                   /\ r.stack[1] # <<>>
    IN IF ~r.ok THEN LegacyThrow(state, r.msg)
       ELSE [ret |-> [currentIndex |-> nextIndex, stack |-> r.stack,
                      altStack |-> r.altStack, isComplete |-> isComplete,
                      isValid |-> isValid],
             threw |-> FALSE, message |-> NoError]

(* ---------------- script texts and numbers of the model ---------------- *)
\* Tokens a script text is made of: decimal and hexadecimal literals, with
\* and without prefix, of even and odd length, in either case; mnemonics in
\* either case, one of them unknown; comment markers.
Tokens ==
  { <<"0">>, <<"1">>, <<"1", "6">>, <<"1", "7">>, <<"1", "2", "8">>,
    <<"-", "1">>, <<"-", "0">>, <<"-", "2">>, <<"-", "1", "2", "8">>,
    <<"a", "b">>, <<"A", "B">>, <<"0", "x", "A", "b">>, <<"0", "X", "F", "F">>,
    <<"0", "x">>, <<"a", "b", "c">>, <<"0", "x", "Z", "Z">>,
    <<"O", "P", "_", "D", "U", "P">>, <<"o", "p", "_", "d", "u", "p">>,
    <<"O", "P", "_", "1">>, <<"O", "P", "_", "F", "O", "O">>,
    <<"/", "/">>, <<"/", "/", "x">> }

ScriptsOfLen(n) == [1..n -> Tokens]
ShortScripts == UNION {ScriptsOfLen(n) : n \in 0..MaxLen}

\* Negative decimal literals around the byte boundaries and the 2^31 boundary.
BoundaryScripts ==
  { << <<"-", "1", "2", "7">> >>, << <<"-", "1", "2", "9">> >>,
    << <<"-", "2", "5", "5">> >>, << <<"-", "2", "5", "6">> >>,
    << <<"-", "3", "2", "7", "6", "7">> >>, << <<"-", "3", "2", "7", "6", "8">> >>,
    << <<"-", "2", "1", "4", "7", "4", "8", "3", "6", "4", "7">> >>,
    << <<"-", "2", "1", "4", "7", "4", "8", "3", "6", "4", "8">> >>,
    << <<"-", "4", "2", "9", "4", "9", "6", "7", "2", "9", "6">> >>,
    << <<"2", "1", "4", "7", "4", "8", "3", "6", "4", "8">> >> }

\* A hex literal of n bytes, in mixed case.
LongHex(n) == [i \in 1..(2 * n) |-> IF i % 2 = 1 THEN "A" ELSE "b"] \o <<>>

\* The instruction the parser makes of a hex literal, as the machine sees
\* it: mnemonic, numeric code, the bytes to push.
PushInstr(trimmed) ==
  LET p == ParseHex(trimmed).ins
  IN [opcode |-> p.opcode, rawOpcode |-> p.rawOpcode, data |-> p.pushData[1]]

\* Programs with a push of 69 bytes, whose numeric code is 69: after OP_1,
\* and alone.
PushPrograms ==
  { <<Instr("OP_1"), PushInstr(LongHex(69))>>, <<PushInstr(LongHex(69))>> }

\* Hex literals on both sides of each size class.
LongScripts == {<<LongHex(n)>> : n \in {75, 76, 255, 256, 65535, 65536}}

\* Script texts as typed: comment lines with and without text after the
\* marker, alone and between instructions; a marker after an instruction;
\* leading, trailing and repeated separators; the empty and the blank text.
ScriptTexts ==
  { <<"/", "/", " ", "f", "o", "o">>,
    <<"/", "/", " ", "1">>,
    <<"/", "/", "x">>,
    <<"/", "/">>,
    <<"/", "/", "x", "\n", "O", "P", "_", "1">>,
    <<"O", "P", "_", "1", "\n", "/", "/", " ", "x", "\n", "O", "P", "_", "D", "U", "P">>,
    <<"O", "P", "_", "1", " ", "/", "/", "x">>,
    <<" ", "O", "P", "_", "1", " ", " ", "O", "P", "_", "D", "U", "P", " ", "\n">>,
    <<"O", "P", "_", "1", "\n", "\n", "O", "P", "_", "D", "U", "P">>,
    <<>>,
    <<" ", "\n", " ">> }

LockingScripts ==
  { <<>>, << <<"O", "P", "_", "D", "U", "P">> >>,
    << <<"O", "P", "_", "F", "O", "O">> >>, << <<"a", "b", "c">> >> }

\* Numbers for encodeScriptNumber: the small ones, those around the byte
\* boundaries, and those around 2^31 and 2^32.
Numbers ==
  {FromInt(k) : k \in (-MaxSmall)..MaxSmall}
  \cup {FromInt(s * k) : s \in {1, -1},
          k \in {127, 128, 129, 255, 256, 32767, 32768, 65535, 65536,
                 8388607, 8388608, 16777215, 16777216, 2147483647}}
  \cup {[neg |-> s, mag |-> m] : s \in BOOLEAN,
          m \in {<<0, 0, 0, 128>>, <<1, 0, 0, 128>>, <<255, 255, 255, 255>>,
                 <<0, 0, 0, 0, 1>>, <<5, 0, 0, 0, 1>>}}

\* Lines of the earlier component's script texts: the opcodes of its switch,
\* one outside it, hex literals in either case, a comment.
LegacyLines ==
  { <<"O", "P", "_", "0">>, <<"O", "P", "_", "1">>, <<"O", "P", "_", "2">>,
    <<"f", "f">>, <<"F", "F">>, <<"8", "1">>,
    <<"O", "P", "_", "D", "U", "P">>, <<"O", "P", "_", "A", "D", "D">>,
    <<"O", "P", "_", "S", "U", "B">>, <<"O", "P", "_", "E", "Q", "U", "A", "L">>,
    <<"O", "P", "_", "E", "Q", "U", "A", "L", "V", "E", "R", "I", "F", "Y">>,
    <<"O", "P", "_", "H", "A", "S", "H", "1", "6", "0">>,
    <<"O", "P", "_", "C", "H", "E", "C", "K", "S", "I", "G">>,
    <<"O", "P", "_", "T", "O", "A", "L", "T", "S", "T", "A", "C", "K">>,
    <<"O", "P", "_", "F", "R", "O", "M", "A", "L", "T", "S", "T", "A", "C", "K">>,
    <<"O", "P", "_", "N", "O", "P", "6", "9">>, <<"/", "/", "x">> }

LegacyShortScripts == UNION {[1..n -> LegacyLines] : n \in 0..MaxLen}

LOp(name) ==
  CASE name = "1" -> <<"O", "P", "_", "1">>
    [] name = "2" -> <<"O", "P", "_", "2">>
    [] name = "3" -> <<"O", "P", "_", "3">>
    [] name = "ADD" -> <<"O", "P", "_", "A", "D", "D">>
    [] name = "SUB" -> <<"O", "P", "_", "S", "U", "B">>
    [] name = "DUP" -> <<"O", "P", "_", "D", "U", "P">>
    [] name = "EQUAL" -> <<"O", "P", "_", "E", "Q", "U", "A", "L">>
    [] name = "EQUALVERIFY" ->
         <<"O", "P", "_", "E", "Q", "U", "A", "L", "V", "E", "R", "I", "F", "Y">>
    [] name = "HASH160" -> <<"O", "P", "_", "H", "A", "S", "H", "1", "6", "0">>
    [] name = "CHECKSIG" -> <<"O", "P", "_", "C", "H", "E", "C", "K", "S", "I", "G">>
    [] name = "TOALTSTACK" ->
         <<"O", "P", "_", "T", "O", "A", "L", "T", "S", "T", "A", "C", "K">>
    [] name = "FROMALTSTACK" ->
         <<"O", "P", "_", "F", "R", "O", "M", "A", "L", "T", "S", "T", "A", "C", "K">>

\* Signatures and public keys, as hex literals.
Signatures == { <<"3", "0", "4", "4">>, <<"f", "f">>, <<"0", "0">> }
PublicKeys == { <<"0", "2", "6", "9">>, <<"0", "0">> }

\* Pairs <<unlocking lines, locking lines>>: the addition example, with the
\* mnemonics and as bare words; a signature check for each signature and
\* key; a hex literal, in either case, with and without prefix, of odd
\* length, then OP_DUP OP_EQUAL; comparisons of equal and unequal operands;
\* sums and differences that are small, zero, negative, two bytes long or of
\* a negative operand; a round trip through the alt stack; an equality
\* verification of equal and of unequal operands, alone and above a third
\* element; every opcode of the switch run with an element on the alt stack.
LegacyScenarios ==
  { << <<LOp("1"), LOp("2")>>, <<LOp("ADD"), LOp("3"), LOp("EQUAL")>> >>,
    << << <<"1">>, <<"2">> >>,
       << <<"A", "D", "D">>, <<"3">>, <<"E", "Q", "U", "A", "L">> >> >> }
  \cup { << <<sig>>, <<key, LOp("CHECKSIG")>> >> :
           sig \in Signatures, key \in PublicKeys }
  \cup { << <<h>>, <<LOp("DUP"), LOp("EQUAL")>> >> :
           h \in { <<"f", "f">>, <<"F", "F">>, <<"0", "x", "f", "f">>,
                   <<"0", "x", "F", "F">>, <<"0", "0">>, <<"a", "b", "c">>,
                   <<"0", "x">> } }
  \cup { << <<x, y>>, <<LOp("EQUAL")>> >> :
           x \in { <<"f", "f">>, LOp("1") }, y \in { <<"f", "f">>, LOp("1"), LOp("2") } }
  \cup { << <<x, y>>, <<op>> >> :
           x \in { LOp("1"), LOp("2"), <<"f", "f">>, <<"8", "1">> },
           y \in { LOp("1"), LOp("3") }, op \in { LOp("ADD"), LOp("SUB") } }
  \cup { << <<LOp("1"), LOp("TOALTSTACK")>>, <<LOp("FROMALTSTACK")>> >> }
  \cup { << <<x, y>>, <<LOp("EQUALVERIFY")>> >> :
           x \in { <<"f", "f">>, LOp("1") }, y \in { <<"f", "f">>, <<"F", "F">>, LOp("1") } }
  \cup { << <<LOp("1"), <<"f", "f">>, y>>, <<LOp("EQUALVERIFY")>> >> :
           y \in { <<"f", "f">>, LOp("2") } }
  \cup { << <<LOp("2"), LOp("TOALTSTACK"), LOp("1"), LOp("1")>>, <<op>> >> :
           op \in LegacyLines }

\* Byte sequences for the truthiness tests: zero bytes, the sign byte 0x80
\* and other nonzero bytes in every position.
ByteValues == {0, 1, 127, 128, 255}
ByteSeqs == UNION {[1..n -> ByteValues] : n \in 0..(MaxLen + 1)}

\* The parser's side of the component: the two script texts (token lists,
\* or the unlocking text as typed, whose token list the call fills in),
\* whether initializeExecution has run, the parse error it reported and what
\* each parseScript call returned; for a number, its encoding and the
\* decoding of that; for a byte sequence, what castToBool returns for it and
\* what isTruthy returns for its lowercase and uppercase hex strings.
NoParse == [input |-> "none", text |-> <<>>, unlockingScript |-> <<>>,
            lockingScript |-> <<>>,
            num |-> [neg |-> FALSE, mag |-> <<>>], bytes |-> <<>>,
            done |-> TRUE, parseError |-> NoError, results |-> <<>>,
            encoded |-> <<>>, decoded |-> <<>>, truthy |-> <<>>]

\* The interpreter component's React state: the snapshot on display
\* (scriptState), the isRunning flag, the pending setTimeout callbacks (each
\* with the handler that set it and the scriptState its closure holds); and
\* of the latest event: its kind, whether a breakpoint was toggled since the
\* latest Run or Next Breakpoint click, and, for a callback, the snapshot
\* that was on display when it fired and the snapshot it ran on (the
\* initial snapshot after any other event).
NoUi == [scriptState |-> InitialState, isRunning |-> FALSE, pending |-> <<>>,
         event |-> "none", toggled |-> FALSE,
         shown |-> InitialState, ranOn |-> InitialState]

\* Requests a caller of WocClient may enqueue.
MaxRequests == 3

\* The WocClient: its requestQueue (request ids, in order), its
\* isProcessingQueue flag, the activations of processQueue that are
\* suspended at an await (each with the await it is at and the request it
\* took), the ids in the order their fetch was started, the number of
\* requests enqueued so far, how each request's promise was settled, and
\* what the drain loop was doing when each request was enqueued.
NoWoc == [requestQueue |-> <<>>, isProcessingQueue |-> FALSE, loops |-> <<>>,
          started |-> <<>>, enqueued |-> 0,
          settled |-> [id \in 1..MaxRequests |-> "pending"],
          during |-> [id \in 1..MaxRequests |-> "none"]]

(* ---------------- the caller ---------------- *)
\* Indices a caller toggles: the first few and those around the ceiling.
ToggleChoices == {i \in 0..MaxLen : i < Len(instructions)}

\* Snapshots a caller keeps of one lineage (of a long program: the initial
\* one and one result).
SnapLimit == IF IsLong THEN 2 ELSE MaxSnaps

MachineOf(h, state) == IF state.spend = 0 THEN <<>> ELSE <<h[state.spend]>>

\* The latest call: its operation, the argument object (index, value and
\* attached machine before the call), the returned object and what the call
\* did.
NoCall == [op |-> "init", arg |-> 0, ret |-> 1, before |-> InitialState,
           mBefore |-> <<>>, stepCount |-> 0, calls |-> 0, thrown |-> FALSE,
           firstStep |-> <<>>, lastStep |-> <<>>, stepArg |-> <<>>]

\* The earlier component's state: the snapshot it shows, whether its latest
\* executeStep call threw and with what message, the snapshot that call was
\* given (called = FALSE: no call yet), the snapshot the call before it was
\* given and the number of calls that returned.
NoLegacy == [state |-> [currentIndex |-> 0, stack |-> <<>>, altStack |-> <<>>,
                        isComplete |-> FALSE, isValid |-> FALSE],
             threw |-> FALSE, message |-> NoError,
             called |-> FALSE, steps |-> 0,
             before |-> [currentIndex |-> 0, stack |-> <<>>, altStack |-> <<>>,
                         isComplete |-> FALSE, isValid |-> FALSE],
             earlier |-> [currentIndex |-> 0, stack |-> <<>>, altStack |-> <<>>,
                          isComplete |-> FALSE, isValid |-> FALSE]]

Init ==
  /\ instructions \in ShortPrograms \cup ScenarioPrograms \cup LongPrograms
                        \cup PushPrograms
  /\ unlockingScriptLength \in
       IF Len(instructions) >= maxSteps THEN {0}
       ELSE IF instructions \in ShortPrograms
       THEN {0, 1, Len(instructions)} \cap 0..Len(instructions)
       ELSE 0..Len(instructions)
  /\ snaps = <<InitialState>>
  /\ made = <<[op |-> "init", arg |-> 0]>>
  /\ spends = <<>>
  /\ last = NoCall
  /\ legacy = NoLegacy
  /\ parser = NoParse
  /\ ui = NoUi
  /\ woc = NoWoc

\* newState = executeStep(snaps[i])
Step(i) ==
  \E r \in {executeStep(spends, snaps[i])} :
    /\ r.same \/ Len(snaps) < SnapLimit
    /\ snaps' = IF r.same THEN snaps
                ELSE Append([snaps EXCEPT ![i] = r.arg], r.ret)
    /\ made' = IF r.same THEN made ELSE Append(made, [op |-> "step", arg |-> i])
    /\ spends' = r.heap
    /\ last' = [op |-> "step", arg |-> i,
                ret |-> IF r.same THEN i ELSE Len(snaps) + 1,
                before |-> snaps[i], mBefore |-> MachineOf(spends, snaps[i]),
                stepCount |-> 0, calls |-> IF r.same THEN 0 ELSE 1,
                thrown |-> r.thrown,
                firstStep |-> IF r.same THEN <<>> ELSE <<r.ret>>,
                lastStep |-> IF r.same THEN <<>> ELSE <<r.ret>>,
                stepArg |-> IF r.same THEN <<>> ELSE <<snaps[i]>>]
    /\ UNCHANGED <<instructions, unlockingScriptLength, legacy, parser, ui, woc>>

\* newState = executeRun(snaps[i])
Run(i) ==
  /\ Len(snaps) < SnapLimit
  /\ \E r \in {executeRun(spends, snaps[i])} :
       /\ snaps' = Append(snaps, r.cur)
       /\ made' = Append(made, [op |-> "run", arg |-> i])
       /\ spends' = r.heap
       /\ last' = [op |-> "run", arg |-> i, ret |-> Len(snaps) + 1,
                   before |-> snaps[i], mBefore |-> MachineOf(spends, snaps[i]),
                   stepCount |-> r.stepCount, calls |-> r.calls,
                   thrown |-> r.thrown, stepArg |-> r.stepArg,
                   firstStep |-> r.firstStep, lastStep |-> r.lastStep]
  /\ UNCHANGED <<instructions, unlockingScriptLength, legacy, parser, ui, woc>>

\* newState = executeToNextBreakpoint(snaps[i])
NextBreakpoint(i) ==
  /\ Len(snaps) < SnapLimit
  /\ \E r \in {executeToNextBreakpoint(spends, snaps[i])} :
       /\ snaps' = Append(snaps, r.cur)
       /\ made' = Append(made, [op |-> "next", arg |-> i])
       /\ spends' = r.heap
       /\ last' = [op |-> "next", arg |-> i, ret |-> Len(snaps) + 1,
                   before |-> snaps[i], mBefore |-> MachineOf(spends, snaps[i]),
                   stepCount |-> r.stepCount, calls |-> r.calls,
                   thrown |-> r.thrown, stepArg |-> r.stepArg,
                   firstStep |-> r.firstStep, lastStep |-> r.lastStep]
  /\ UNCHANGED <<instructions, unlockingScriptLength, legacy, parser, ui, woc>>

\* newState = toggleBreakpoint(snaps[i], k), on the snapshot on display
Toggle(i, k) ==
  /\ i = Len(snaps)
  /\ Len(snaps) < SnapLimit
  /\ snaps' = Append(snaps, toggleBreakpoint(snaps[i], k))
  /\ made' = Append(made, [op |-> "toggle", arg |-> i, index |-> k])
  /\ last' = [op |-> "toggle", arg |-> i, ret |-> Len(snaps) + 1,
              before |-> snaps[i], mBefore |-> MachineOf(spends, snaps[i]),
              stepCount |-> 0, calls |-> 0, thrown |-> FALSE,
              firstStep |-> <<>>, lastStep |-> <<>>, stepArg |-> <<>>]
  /\ UNCHANGED <<instructions, unlockingScriptLength, spends, legacy, parser, ui, woc>>

\* const nextBreakpointIndex = findNextBreakpoint(scriptState), on the
\* snapshot on display, while the caller may still keep another snapshot
FindNext(i) ==
  /\ i = Len(snaps)
  /\ Len(snaps) < SnapLimit
  /\ last' = [op |-> "find", arg |-> i, ret |-> i,
              before |-> snaps[i], mBefore |-> MachineOf(spends, snaps[i]),
              stepCount |-> 0, calls |-> 0, thrown |-> FALSE,
              firstStep |-> <<>>, lastStep |-> <<>>, stepArg |-> <<>>,
              nextBreakpointIndex |-> findNextBreakpoint(snaps[i])]
  /\ UNCHANGED <<instructions, unlockingScriptLength, snaps, made, spends,
                 legacy, parser, ui, woc>>

\* The snapshots a caller still calls the operations on: the initial one
\* and the latest.
Callable == {1, Len(snaps)}

Next ==
  \/ \E i \in Callable : Step(i)
  \/ \E i \in Callable : Run(i)
  \/ \E i \in Callable : NextBreakpoint(i)
  \/ \E i \in {Len(snaps)} : \E k \in ToggleChoices : Toggle(i, k)
  \/ \E i \in {Len(snaps)} : FindNext(i)

Spec == Init /\ [][Next]_vars

(* ---------------- the earlier component ---------------- *)
\* initializeExecution of the earlier component: both texts parsed, the
\* instructions concatenated
InitLegacy ==
  /\ \E sc \in {<<u, <<>> >> : u \in LegacyShortScripts} \cup LegacyScenarios :
       /\ instructions = legacyParseScript(sc[1]) \o legacyParseScript(sc[2])
       /\ unlockingScriptLength = Len(legacyParseScript(sc[1]))
  /\ snaps = <<InitialState>>
  /\ made = <<[op |-> "init", arg |-> 0]>>
  /\ spends = <<>>
  /\ last = NoCall
  /\ legacy = NoLegacy
  /\ parser = NoParse
  /\ ui = NoUi
  /\ woc = NoWoc

\* newState = executeStep(scriptState); setScriptState(newState)
LegacyStep ==
  /\ ~legacy.state.isComplete
  /\ \E r \in {legacyExecuteStep(legacy.state)} :
       legacy' = [state |-> r.ret, threw |-> r.threw, message |-> r.message,
                  called |-> TRUE, before |-> legacy.state,
                  earlier |-> legacy.before,
                  steps |-> IF r.threw \/ r.ret = legacy.state THEN legacy.steps
                            ELSE legacy.steps + 1]
  /\ UNCHANGED <<instructions, unlockingScriptLength, snaps, made, spends, last,
                 parser, ui, woc>>

NextLegacy == LegacyStep

SpecLegacy == InitLegacy /\ [][NextLegacy]_vars

(* ---------------- the parser's side of the component ---------------- *)
InitParse ==
  /\ instructions = <<>>
  /\ unlockingScriptLength = 0
  /\ snaps = <<>>
  /\ made = <<>>
  /\ spends = <<>>
  /\ last = NoCall
  /\ legacy = NoLegacy
  /\ ui = NoUi
  /\ woc = NoWoc
  /\ parser \in
       {[NoParse EXCEPT !.input = "script", !.done = FALSE,
                        !.unlockingScript = u, !.lockingScript = l] :
          u \in ShortScripts \cup BoundaryScripts, l \in LockingScripts}
       \cup {[NoParse EXCEPT !.input = "script", !.done = FALSE,
                             !.unlockingScript = u] : u \in LongScripts}
       \cup {[NoParse EXCEPT !.input = "text", !.done = FALSE, !.text = t] :
               t \in ScriptTexts}
       \cup {[NoParse EXCEPT !.input = "number", !.done = FALSE, !.num = n] :
               n \in Numbers}
       \cup {[NoParse EXCEPT !.input = "bytes", !.done = FALSE, !.bytes = b] :
               b \in ByteSeqs}

\* initializeExecution: both parseScript calls inside one try; the catch
\* reports the error and sets no state
initializeExecution ==
  /\ parser.input \in {"script", "text"} /\ ~parser.done
  /\ \E lines \in {IF parser.input = "text" THEN SplitLines(parser.text)
                    ELSE parser.unlockingScript} :
     \E u \in {parseScript(lines)} :
     \E l \in {IF u.thrown THEN u ELSE parseScript(parser.lockingScript)} :
       IF u.thrown \/ l.thrown
       THEN /\ parser' = [parser EXCEPT !.done = TRUE, !.parseError = l.message,
                                        !.unlockingScript = lines,
                                        !.results = IF u.thrown THEN <<u>>
                                                    ELSE <<u, l>>]
            /\ UNCHANGED <<instructions, unlockingScriptLength, snaps, made>>
       ELSE /\ parser' = [parser EXCEPT !.done = TRUE, !.results = <<u, l>>,
                                        !.unlockingScript = lines]
            /\ instructions' = u.instructions \o l.instructions
            /\ unlockingScriptLength' = Len(u.instructions)
            /\ snaps' = <<InitialState>>
            /\ made' = <<[op |-> "init", arg |-> 0]>>
  /\ UNCHANGED <<spends, last, legacy, ui, woc>>

\* decodeScriptNumber(encodeScriptNumber(num))
RoundTrip ==
  /\ parser.input = "number" /\ ~parser.done
  /\ parser' = [parser EXCEPT
                  !.done = TRUE,
                  !.encoded = <<encodeScriptNumber(parser.num)>>,
                  !.decoded = <<decodeScriptNumber(encodeScriptNumber(parser.num))>>]
  /\ UNCHANGED <<instructions, unlockingScriptLength, snaps, made, spends,
                 last, legacy, ui, woc>>

\* castToBool(bytes), isTruthy(hex) and isTruthy(HEX) for one byte sequence
Truthiness ==
  /\ parser.input = "bytes" /\ ~parser.done
  /\ parser' = [parser EXCEPT
                  !.done = TRUE,
                  !.truthy = <<castToBool(parser.bytes),
                               isTruthy(uint8ArrayToHex(parser.bytes)),
                               isTruthy(toUpperCase(uint8ArrayToHex(parser.bytes)))>>]
  /\ UNCHANGED <<instructions, unlockingScriptLength, snaps, made, spends,
                 last, legacy, ui, woc>>

NextParse == initializeExecution \/ RoundTrip \/ Truthiness

SpecParse == InitParse /\ [][NextParse]_vars

(* ---------------- the interpreter component ---------------- *)
\* The component after initializeExecution: the initial snapshot on display,
\* nothing running, the program all locking or all unlocking script.  Each
\* handler below is the handler of the latest render, whose closure holds
\* the scriptState on display.
InitUi ==
  /\ instructions \in ShortPrograms \cup ScenarioPrograms
  /\ unlockingScriptLength \in {0, Len(instructions)}
  /\ snaps = <<InitialState>>
  /\ made = <<[op |-> "init", arg |-> 0]>>
  /\ spends = <<>>
  /\ last = NoCall
  /\ legacy = NoLegacy
  /\ parser = NoParse
  /\ ui = NoUi
  /\ woc = NoWoc

\* (scriptState.breakpoints && scriptState.breakpoints.size > 0) ||
\* scriptState.instructions.some(instruction => instruction.opcode === 'OP_NOP69')
hasBreakpoints ==
  \/ (Len(ui.scriptState.breakpoints) > 0 /\ ui.scriptState.breakpoints[1] # {})
  \/ \E i \in 1..Len(instructions) : instructions[i].opcode = "OP_NOP69"

\* Next Step (disabled while complete or running): executeStep on the
\* snapshot on display, setScriptState(newState)
executeNextStep ==
  /\ ~ui.scriptState.isComplete /\ ~ui.isRunning
  /\ \E r \in {executeStep(spends, ui.scriptState)} :
       /\ ui' = [ui EXCEPT !.scriptState = r.ret, !.event = "step",
                           !.shown = InitialState, !.ranOn = InitialState]
       /\ spends' = r.heap
  /\ UNCHANGED <<instructions, unlockingScriptLength, snaps, made, last,
                 legacy, parser, woc>>

\* Run (disabled while complete or running): setIsRunning(true) and a
\* setTimeout whose callback holds the scriptState of this render
executeRunMode ==
  /\ ~ui.scriptState.isComplete /\ ~ui.isRunning
  /\ ui' = [ui EXCEPT !.isRunning = TRUE,
                      !.pending = Append(@, [handler |-> "executeRunMode",
                                             scriptState |-> ui.scriptState]),
                      !.event = "run", !.toggled = FALSE,
                      !.shown = InitialState, !.ranOn = InitialState]
  /\ UNCHANGED <<instructions, unlockingScriptLength, snaps, made, spends,
                 last, legacy, parser, woc>>

\* Next Breakpoint (rendered only when hasBreakpoints and findNextBreakpoint
\* finds an index; disabled while complete or running): the same, for
\* executeToNextBreakpoint
executeToNextBreakpointHandler ==
  /\ hasBreakpoints /\ findNextBreakpoint(ui.scriptState) > 0
  /\ ~ui.scriptState.isComplete /\ ~ui.isRunning
  /\ ui' = [ui EXCEPT !.isRunning = TRUE,
                      !.pending = Append(@, [handler |-> "executeToNextBreakpointHandler",
                                             scriptState |-> ui.scriptState]),
                      !.event = "next", !.toggled = FALSE,
                      !.shown = InitialState, !.ranOn = InitialState]
  /\ UNCHANGED <<instructions, unlockingScriptLength, snaps, made, spends,
                 last, legacy, parser, woc>>

\* a click on an instruction's breakpoint button, which is never disabled:
\* setScriptState(toggleBreakpoint(scriptState, instructionIndex))
handleBreakpointToggle(instructionIndex) ==
  /\ ui' = [ui EXCEPT !.scriptState = toggleBreakpoint(@, instructionIndex),
                      !.event = "toggle",
                      !.toggled = @ \/ ui.pending # <<>>,
                      !.shown = InitialState, !.ranOn = InitialState]
  /\ UNCHANGED <<instructions, unlockingScriptLength, snaps, made, spends,
                 last, legacy, parser, woc>>

\* the setTimeout callback of either handler, 100 ms after the click:
\* newState = executeRun(scriptState) (or executeToNextBreakpoint) on the
\* scriptState of its closure, setScriptState(newState), setIsRunning(false)
RunTimeout ==
  /\ ui.pending # <<>>
  /\ \E r \in {IF ui.pending[1].handler = "executeRunMode"
               THEN executeRun(spends, ui.pending[1].scriptState)
               ELSE executeToNextBreakpoint(spends, ui.pending[1].scriptState)} :
       /\ ui' = [ui EXCEPT !.scriptState = r.cur, !.isRunning = FALSE,
                           !.pending = Tail(@), !.event = "timeout",
                           !.shown = ui.scriptState,
                           !.ranOn = ui.pending[1].scriptState]
       /\ spends' = r.heap
  /\ UNCHANGED <<instructions, unlockingScriptLength, snaps, made, last,
                 legacy, parser, woc>>

NextUi ==
  \/ executeNextStep
  \/ executeRunMode
  \/ executeToNextBreakpointHandler
  \/ \E k \in ToggleChoices : handleBreakpointToggle(k)
  \/ RunTimeout

SpecUi == InitUi /\ [][NextUi]_vars

(* ---------------- the WocClient request queue ---------------- *)
\* JavaScript runs each piece of code between two awaits without
\* interruption: an action below is one such piece.
RemoveAt(seq, i) == SubSeq(seq, 1, i - 1) \o SubSeq(seq, i + 1, Len(seq))

\* the test of the while loop by activation i, and what follows it up to
\* the next await: shift the first item and call fetch, or leave the loop
\* and clear the flag
WhileTest(w, i) ==
  IF Len(w.requestQueue) > 0
  THEN [w EXCEPT !.requestQueue = Tail(@),
                 !.loops[i] = [at |-> "fetch", request |-> Head(w.requestQueue)],
                 !.started = Append(@, Head(w.requestQueue))]
  ELSE [w EXCEPT !.isProcessingQueue = FALSE, !.loops = RemoveAt(@, i)]

\* A processQueue without the test of the flag.
processQueueUnguarded(w) ==
  WhileTest([w EXCEPT !.isProcessingQueue = TRUE,
                      !.loops = Append(@, [at |-> "start", request |-> 0])],
            Len(w.loops) + 1)

\* processQueue up to its first await: return if the flag is set, otherwise
\* set it and enter the loop
processQueue(w) ==
  IF w.isProcessingQueue THEN w
  ELSE WhileTest([w EXCEPT !.isProcessingQueue = TRUE,
                           !.loops = Append(@, [at |-> "start", request |-> 0])],
                 Len(w.loops) + 1)

\* A rejection that leaves processQueue: the loop ends with the flag set.
Uncaught(w, i) == [w EXCEPT !.loops = RemoveAt(@, i)]

\* catch (error): resolve(null), then the pause
Caught(w, i) ==
  [w EXCEPT !.settled[w.loops[i].request] = "null", !.loops[i].at = "sleep"]

\* resolve(text) / resolve(data), then the pause
Resolved(w, i) ==
  [w EXCEPT !.settled[w.loops[i].request] = "data", !.loops[i].at = "sleep"]

InitWoc ==
  /\ instructions = <<>>
  /\ unlockingScriptLength = 0
  /\ snaps = <<>>
  /\ made = <<>>
  /\ spends = <<>>
  /\ last = NoCall
  /\ legacy = NoLegacy
  /\ parser = NoParse
  /\ ui = NoUi
  /\ woc = NoWoc

\* queueRequest: the executor of the new Promise pushes the item and calls
\* processQueue
queueRequest ==
  /\ woc.enqueued < MaxRequests
  /\ \E id \in {woc.enqueued + 1} :
       woc' = processQueue([woc EXCEPT
                 !.requestQueue = Append(@, id),
                 !.enqueued = id,
                 !.during[id] = IF woc.loops = <<>> THEN "idle"
                                ELSE woc.loops[1].at])
  /\ UNCHANGED <<instructions, unlockingScriptLength, snaps, made, spends,
                 last, legacy, parser, ui>>

\* the fetch of activation i settles: with a response, whose body is read
\* next, or with a rejection
FetchSettles(i, ok) ==
  /\ i <= Len(woc.loops) /\ woc.loops[i].at = "fetch"
  /\ woc' = IF ok THEN [woc EXCEPT !.loops[i].at = "body"] ELSE Caught(woc, i)
  /\ UNCHANGED <<instructions, unlockingScriptLength, snaps, made, spends,
                 last, legacy, parser, ui>>

\* response.text() / response.json() of activation i settles
BodySettles(i, ok) ==
  /\ i <= Len(woc.loops) /\ woc.loops[i].at = "body"
  /\ woc' = IF ok THEN Resolved(woc, i) ELSE Caught(woc, i)
  /\ UNCHANGED <<instructions, unlockingScriptLength, snaps, made, spends,
                 last, legacy, parser, ui>>

\* the 350 ms pause of activation i ends: back to the test of the loop
PauseEnds(i) ==
  /\ i <= Len(woc.loops) /\ woc.loops[i].at = "sleep"
  /\ woc' = WhileTest(woc, i)
  /\ UNCHANGED <<instructions, unlockingScriptLength, snaps, made, spends,
                 last, legacy, parser, ui>>

NextWoc ==
  \/ queueRequest
  \/ \E i \in 1..MaxRequests : \E ok \in BOOLEAN : FetchSettles(i, ok)
  \/ \E i \in 1..MaxRequests : \E ok \in BOOLEAN : BodySettles(i, ok)
  \/ \E i \in 1..MaxRequests : PauseEnds(i)

SpecWoc == InitWoc /\ [][NextWoc]_vars

\* Every fetch and every read of a body settles, and every timer fires.
SpecWocLive ==
  /\ InitWoc /\ [][NextWoc]_vars
  /\ WF_vars(\E i \in 1..MaxRequests : \E ok \in BOOLEAN : FetchSettles(i, ok))
  /\ WF_vars(\E i \in 1..MaxRequests : \E ok \in BOOLEAN : BodySettles(i, ok))
  /\ WF_vars(\E i \in 1..MaxRequests : PauseEnds(i))

(* ================= properties ================= *)
Ret == snaps[last.ret]
Arg == last.before
RunOps == {"run", "next"}

\* position of the machine the argument carried (a fresh one starts at 0)
MachinePos == IF last.mBefore = <<>> THEN 0 ELSE SpendIndex(last.mBefore[1])

\* smallest breakpoint index of state above p, or -1
FirstBreakpointAfter(state, p) ==
  LET S == {i \in (p + 1)..(Len(instructions) - 1) : isBreakpoint(state, i)}
  IN IF S = {} THEN -1 ELSE CHOOSE i \in S : \A j \in S : i <= j

\* no executeStep call of the latest run ended in completion or an error
NoStepEnded == last.lastStep = <<>> \/ ~last.lastStep[1].isComplete

AtBreakpoint(state) == isBreakpoint(state, state.currentIndex)

\* C1: executeRun on an incomplete snapshot performs its first step even when
\* the current index is a breakpoint: it makes at least one executeStep call.
C1_RunTakesFirstStep ==
  (last.op = "run" /\ ~Arg.isComplete) => last.calls >= 1

\* C2 (as stated): executeRun always returns a snapshot with completion=true.
C2_RunAlwaysCompletes ==
  last.op = "run" => Ret.isComplete

\* C2 (amended): executeRun returns completion=true unless it returns paused
\* at a breakpoint (explicit index or inline marker), where completion=false.
C2_RunCompletesOrPauses ==
  last.op = "run" => (Ret.isComplete \/ AtBreakpoint(Ret))

C2_Witness ==
  /\ last.op = "run" /\ last.calls >= 1
  /\ ~Ret.isComplete /\ AtBreakpoint(Ret)

\* C3: one call of executeRun or executeToNextBreakpoint makes at most 10,000
\* executeStep calls, the step that leaves the current breakpoint included.
C3_AtMostMaxSteps ==
  last.op \in RunOps => last.calls <= maxSteps

C3_Witness ==
  /\ last.op = "next" /\ AtBreakpoint(Arg)
  /\ last.calls = maxSteps

\* C4: a run that reaches the ceiling with execution incomplete returns
\* completion=true, validity=false, the 'too many steps' message, and the
\* counter and stacks of the last executed step.
C4_CeilingResult ==
  (/\ last.op \in RunOps
   /\ last.stepCount >= maxSteps
   /\ Len(last.lastStep) > 0 /\ ~last.lastStep[1].isComplete)
  => /\ Ret.isComplete /\ ~Ret.isValid
     /\ Ret.executionError = TooManySteps
     /\ Ret.currentIndex = last.lastStep[1].currentIndex
     /\ Ret.stack = last.lastStep[1].stack
     /\ Ret.altStack = last.lastStep[1].altStack

C4_Witness ==
  /\ last.op = "run" /\ last.stepCount >= maxSteps
  /\ Len(last.lastStep) > 0 /\ ~last.lastStep[1].isComplete
  /\ Ret.executionError = TooManySteps /\ Ret.currentIndex = maxSteps

C6_LeavesCurrentBreakpoint ==
  (last.op = "next" /\ ~Arg.isComplete /\ AtBreakpoint(Arg))
  => /\ last.calls >= 1
     /\ ~(~Ret.isComplete /\ Ret.currentIndex = Arg.currentIndex)
     /\ last.firstStep[1].isComplete
          => /\ last.calls = 1
             /\ Ret = [last.firstStep[1] EXCEPT !.isRunning = "false"]

C6_Witness ==
  /\ last.op = "next" /\ ~Arg.isComplete /\ AtBreakpoint(Arg)
  /\ ~Ret.isComplete /\ Ret.currentIndex = Arg.currentIndex + 1
  /\ AtBreakpoint(Ret)

C8_StepNeverThrows ==
  ~legacy.threw

\* C9: executeStep applied twice to the same incomplete snapshot returns
\* snapshots with equal counter, stacks, phase, completion and validity.
C9_StepIsPure ==
  \A j, k \in 1..Len(snaps) :
    (made[j].op = "step" /\ made[k].op = "step" /\ made[j].arg = made[k].arg)
    => /\ snaps[j].currentIndex = snaps[k].currentIndex
       /\ snaps[j].stack = snaps[k].stack
       /\ snaps[j].altStack = snaps[k].altStack
       /\ snaps[j].context = snaps[k].context
       /\ snaps[j].isComplete = snaps[k].isComplete
       /\ snaps[j].isValid = snaps[k].isValid

\* C10: after an operation returns, every field of the snapshot it was given,
\* its attached machine included, is as it was before the call.
C10_ArgumentUnchanged ==
  last.op # "init"
  => /\ snaps[last.arg] = Arg
     /\ MachineOf(spends, snaps[last.arg]) = last.mBefore

\* C11: on a snapshot with completion=true, executeStep, executeRun and
\* executeToNextBreakpoint execute no instruction and return a snapshot with
\* the same counter, stacks, validity and error message and completion=true;
\* every snapshot derived from a complete one is complete.
C11_CompleteIsTerminal ==
  /\ (last.op \in {"step", "run", "next"} /\ Arg.isComplete)
     => /\ last.calls = 0
        /\ MachineOf(spends, snaps[last.arg]) = last.mBefore
        /\ Ret.isComplete
        /\ Ret.currentIndex = Arg.currentIndex
        /\ Ret.stack = Arg.stack /\ Ret.altStack = Arg.altStack
        /\ Ret.isValid = Arg.isValid
        /\ Ret.executionError = Arg.executionError
  /\ \A j \in 2..Len(snaps) : snaps[made[j].arg].isComplete => snaps[j].isComplete

C11_Witness ==
  /\ last.op \in {"step", "run", "next"} /\ Arg.isComplete
  /\ Arg.isValid /\ Arg.currentIndex = Len(instructions) /\ Len(Arg.stack) > 0

\* the bytes a stack entry (hex digit pairs) stands for
BytesOf(hx) == [i \in 1..(Len(hx) \div 2) |-> hx[2 * i - 1] * 16 + hx[2 * i]]

Truthy(hx) == castToBool(BytesOf(hx))

\* C12: a snapshot that completed without a fatal error has validity=true if
\* and only if its main stack holds exactly one element and that element is
\* truthy under castToBool.
C12_ValidIffSingleTruthy ==
  \A j \in 1..Len(snaps) :
    (snaps[j].isComplete /\ snaps[j].executionError = NoError)
    => (snaps[j].isValid <=>
          (Len(snaps[j].stack) = 1 /\ Truthy(snaps[j].stack[1])))

\* C13: the snapshot of a step that completes execution has validity equal to
\* the truthiness of the top (last) element of its main stack, false when the
\* stack is empty; no snapshot with completion=false has validity=true.
C13_ValidFromTop ==
  /\ \A j \in 1..Len(snaps) : ~snaps[j].isComplete => ~snaps[j].isValid
  /\ (Len(last.lastStep) > 0 /\ ~last.thrown /\ last.lastStep[1].isComplete)
     => (last.lastStep[1].isValid <=>
           (/\ Len(last.lastStep[1].stack) > 0
            /\ Truthy(Last(last.lastStep[1].stack))))

\* C14: in every snapshot of a lineage, the initial one included,
\* completion=true if and only if the counter equals the program length or a
\* fatal error was recorded.
C14_CompleteIffEndOrError ==
  \A j \in 1..Len(snaps) :
    snaps[j].isComplete <=>
      (\/ snaps[j].currentIndex = Len(instructions)
       \/ snaps[j].executionError # NoError)

\* C15: in every snapshot the counter lies in 0..program length, whatever
\* the split of the program into unlocking and locking part (empty parts
\* included); likewise in the snapshots of the earlier executeStep.
C15_CounterInRange ==
  /\ \A j \in 1..Len(snaps) :
       /\ snaps[j].currentIndex >= 0
       /\ snaps[j].currentIndex <= Len(instructions)
  /\ legacy.state.currentIndex >= 0
  /\ legacy.state.currentIndex <= Len(instructions)

C15_Witness ==
  /\ Len(instructions) = 2 /\ unlockingScriptLength = 2
  /\ last.op = "step" /\ last.calls = 1
  /\ Arg.currentIndex = 1 /\ Ret.currentIndex = 2

(* ---------------- the parser ---------------- *)
\* The scripts initializeExecution parsed, each with what parseScript returned,
\* and the tokens of those parsed without a skipped line, each with its
\* instruction.
ParsedScripts ==
  {<<parser.unlockingScript, parser.results[1]>> : k \in {1} \cap DOMAIN parser.results}
  \cup {<<parser.lockingScript, parser.results[2]>> : k \in {2} \cap DOMAIN parser.results}

TokenInstrs ==
  UNION {{<<p[1][i], p[2].instructions[i]>> : i \in 1..Len(p[1])} :
           p \in {q \in ParsedScripts :
                    ~q[2].thrown /\ Len(q[2].instructions) = Len(q[1])}}

\* the value of a decimal token is the integer v
HasValue(t, v) == IsDecimal(t) /\ NumEq(parseInt(t), FromInt(v))

NoPushData(name) == [opcode |-> name, rawOpcode |-> OP(name), half |-> FALSE,
                     data |-> <<>>, pushData |-> <<>>]

\* C16: decodeScriptNumber(encodeScriptNumber(n)) = n for every number n of
\* the range, the values on both sides of 2^31 included.
C16_RoundTrip ==
  (parser.input = "number" /\ parser.done)
  => NumEq(parser.decoded[1], parser.num)

\* C17: the parser maps the decimal token 0 to OP_0, the token -1 to
\* OP_1NEGATE and each decimal token N in 1..16 to OP_N, each without push
\* data.
C17_SmallDecimalTokens ==
  \A ti \in TokenInstrs :
    /\ HasValue(ti[1], 0) => ti[2] = NoPushData("OP_0")
    /\ HasValue(ti[1], -1) => ti[2] = NoPushData("OP_1NEGATE")
    /\ \A n \in 1..16 : HasValue(ti[1], n) => ti[2] = NoPushData(SmallName(n))

\* the minimal script-number encoding of a number: its magnitude bytes, an
\* extra 00 / 80 byte when the top bit of the last one is set, otherwise the
\* sign in the top bit of the last one
MinimalEncoding(num) ==
  IF num.mag = <<>> THEN <<>>
  ELSE IF Last(num.mag) >= 128
  THEN Append(num.mag, IF num.neg THEN 128 ELSE 0)
  ELSE IF num.neg THEN [num.mag EXCEPT ![Len(num.mag)] = @ + 128]
  ELSE num.mag

\* the value of a decimal token lies outside -1..16
OutsideSmall(t) ==
  /\ IsDecimal(t)
  /\ \A v \in -1..16 : ~NumEq(parseInt(t), FromInt(v))

\* C18: every decimal token whose value is outside -1..16 parses to one push
\* instruction whose data is the minimal script-number encoding of the value
\* and whose numeric code is the data length; the token 128 yields 80 00.
C18_LargeDecimalTokens ==
  \A ti \in TokenInstrs :
    OutsideSmall(ti[1])
    => /\ ti[2].pushData = <<MinimalEncoding(parseInt(ti[1]))>>
       /\ ti[2].data = <<uint8ArrayToHex(MinimalEncoding(parseInt(ti[1])))>>
       /\ ti[2].rawOpcode = Len(MinimalEncoding(parseInt(ti[1])))
       /\ ~ti[2].half
       /\ ti[1] = <<"1", "2", "8">> => ti[2].pushData = <<<<128, 0>>>>

\* a hex literal: an optional 0x prefix, then an even number of hex digits
IsHexLiteral(t) ==
  /\ Len(Strip0x(t)) % 2 = 0
  /\ Has0x(t) \/ Len(t) > 0
  /\ \A i \in 1..Len(Strip0x(t)) : IsHexChar(Strip0x(t)[i])

\* the bytes a string of hex digit pairs stands for
DecodedBytes(h) ==
  [k \in 1..(Len(h) \div 2) |-> 16 * HexVal(h[2 * k - 1]) + HexVal(h[2 * k])] \o <<>>

\* the smallest size class for a data length
SizeClass(L) ==
  IF L <= 75 THEN L
  ELSE IF L <= 255 THEN OP("OP_PUSHDATA1")
  ELSE IF L <= 65535 THEN OP("OP_PUSHDATA2")
  ELSE OP("OP_PUSHDATA4")

\* C19: every hex-literal token parses to one push instruction whose data is
\* the token's digits in lowercase, whose bytes are the decoded bytes and
\* whose numeric code is the smallest size class for the data length, a whole
\* number that agrees with the length.
C19_HexLiteralPush ==
  \A ti \in TokenInstrs :
    IsHexLiteral(ti[1])
    => /\ ti[2].data = <<toLowerCase(Strip0x(ti[1]))>>
       /\ ti[2].pushData = <<DecodedBytes(Strip0x(ti[1]))>>
       /\ ~ti[2].half
       /\ ti[2].rawOpcode = SizeClass(Len(ti[2].pushData[1]))
       /\ 2 * Len(ti[2].pushData[1]) = Len(Strip0x(ti[1]))

C19_Witness ==
  /\ parser.input = "script" /\ parser.done
  /\ \E ti \in TokenInstrs :
       /\ IsHexLiteral(ti[1]) /\ Has0x(ti[1])
       /\ ti[2].pushData = <<<<171>>>> /\ ti[2].rawOpcode = 1
  /\ Len(parser.unlockingScript) = 2

\* a token that is neither a comment, nor a hex literal, nor a decimal
\* literal, nor a mnemonic of the table
IsBad(t) ==
  /\ ~(Len(t) >= 2 /\ t[1] = "/" /\ t[2] = "/")
  /\ ~IsHexLiteral(t)
  /\ ~IsDecimal(t)
  /\ OP(Str(toUpperCase(t))) = -1

HasBadToken ==
  \/ \E i \in 1..Len(parser.unlockingScript) : IsBad(parser.unlockingScript[i])
  \/ \E i \in 1..Len(parser.lockingScript) : IsBad(parser.lockingScript[i])

\* C20: when some token of the two scripts is neither an even-length hex
\* literal, nor a decimal literal, nor a known mnemonic, parsing fails with
\* an error, the failing parseScript call returns no instructions, and
\* initialization creates no snapshot.
C20_BadTokenFails ==
  (parser.input = "script" /\ parser.done /\ HasBadToken)
  => /\ parser.parseError # NoError
     /\ Last(parser.results).thrown
     /\ Last(parser.results).instructions = <<>>
     /\ snaps = <<>> /\ instructions = <<>>

\* the lines of a text (split at newlines, empty ones kept)
RECURSIVE TextLines(_, _, _)
TextLines(text, i, cur) ==
  IF i > Len(text) THEN <<cur>>
  ELSE IF text[i] = "\n" THEN <<cur>> \o TextLines(text, i + 1, <<>>)
  ELSE TextLines(text, i + 1, Append(cur, text[i]))

RECURSIVE DropSpaces(_)
DropSpaces(l) == IF l # <<>> /\ l[1] = " " THEN DropSpaces(Tail(l)) ELSE l

\* a line that begins with the comment marker
IsCommentLine(l) ==
  Len(DropSpaces(l)) >= 2 /\ DropSpaces(l)[1] = "/" /\ DropSpaces(l)[2] = "/"

\* the text without its comment lines
RECURSIVE JoinKept(_)
JoinKept(ls) ==
  IF ls = <<>> THEN <<>>
  ELSE IF IsCommentLine(ls[1]) THEN JoinKept(Tail(ls))
  ELSE ls[1] \o <<"\n">> \o JoinKept(Tail(ls))

WithoutComments(text) == JoinKept(TextLines(text, 1, <<>>))

RECURSIVE Flatten(_)
Flatten(ls) == IF ls = <<>> THEN <<>> ELSE ls[1] \o Flatten(Tail(ls))

\* C21: the tokens of a text are its non-empty pieces between newlines and
\* spaces, and a line that begins with // contributes no instruction and
\* raises no error whatever follows the marker: parsing the text gives what
\* parsing it without its comment lines gives.
C21_CommentLines ==
  (parser.input = "text" /\ parser.done)
  => /\ \A i \in 1..Len(parser.unlockingScript) :
          /\ parser.unlockingScript[i] # <<>>
          /\ \A k \in 1..Len(parser.unlockingScript[i]) :
               ~IsSeparator(parser.unlockingScript[i][k])
     /\ Flatten(parser.unlockingScript)
          = SelectSeq(parser.text, LAMBDA c : ~IsSeparator(c))
     /\ parser.results[1]
          = parseScript(SplitLines(WithoutComments(parser.text)))

(* ---------------- breakpoints ---------------- *)
\* the members of a snapshot's breakpoint set (none when it has no set)
BpSet(state) == IF Len(state.breakpoints) = 0 THEN {} ELSE state.breakpoints[1]

\* snapshot k came from toggling, at the same index, a snapshot that itself
\* came from a toggle
ToggledTwice(k) ==
  /\ made[k].op = "toggle" /\ made[made[k].arg].op = "toggle"
  /\ made[k].index = made[made[k].arg].index

\* C22: toggling the same index twice gives a snapshot whose breakpoint set
\* has the members of the original's, also when the original has no set yet.
C22_ToggleTwiceRestores ==
  /\ \A k \in 1..Len(snaps) :
       ToggledTwice(k) => BpSet(snaps[k]) = BpSet(snaps[made[made[k].arg].arg])
  /\ \A j \in 1..Len(snaps) : \A i \in 0..(MaxLen + 1) :
       BpSet(toggleBreakpoint(toggleBreakpoint(snaps[j], i), i)) = BpSet(snaps[j])

C22_Witness ==
  /\ Len(snaps) = 3 /\ ToggledTwice(3)
  /\ snaps[1].breakpoints = <<>> /\ BpSet(snaps[2]) = {1}
  /\ snaps[3].breakpoints = <<{}>>

\* C23: toggleBreakpoint(s, i) returns s with i added to the breakpoint set
\* if it was absent and removed if it was present; every other field of the
\* snapshot is that of s, and no instruction is executed: no step is made and
\* the attached machine is as it was.
C23_ToggleFrame ==
  last.op = "toggle"
  => LET i == made[last.ret].index IN
     /\ Len(Ret.breakpoints) = 1
     /\ BpSet(Ret) = IF i \in BpSet(Arg) THEN BpSet(Arg) \ {i}
                     ELSE BpSet(Arg) \cup {i}
     /\ Ret = [Arg EXCEPT !.breakpoints = Ret.breakpoints]
     /\ last.calls = 0
     /\ snaps[last.arg] = Arg
     /\ MachineOf(spends, Ret) = last.mBefore

C23_Witness ==
  /\ last.op = "toggle" /\ made[last.ret].index = 1
  /\ Arg.currentIndex = 1 /\ Len(Arg.stack) = 1 /\ Arg.spend # 0
  /\ Arg.breakpoints = <<>> /\ BpSet(Ret) = {1}
  /\ Len(instructions) = 2

\* C24: findNextBreakpoint returns the smallest index i with counter < i <
\* program length that is a breakpoint (in the explicit set or an inline
\* marker) and none (-1) when there is no such index; never the current
\* index, never an index outside the program.
C24_FindsFirstBreakpointAhead ==
  last.op = "find"
  => LET r == last.nextBreakpointIndex
         S == {i \in 0..(Len(instructions) - 1) :
                 i > Arg.currentIndex /\ isBreakpoint(Arg, i)}
     IN /\ S = {} => r = -1
        /\ S # {} => (r \in S /\ \A j \in S : r <= j)
        /\ r # Arg.currentIndex
        /\ r = -1 \/ (r >= 0 /\ r < Len(instructions))
        /\ snaps[last.arg] = Arg

C24_Witness ==
  /\ last.op = "find" /\ last.nextBreakpointIndex = 2
  /\ Arg.currentIndex = 0 /\ BpSet(Arg) = {2}
  /\ Len(instructions) = 5

(* ---------------- truthiness ---------------- *)
\* v has a nonzero byte, and it is not its final byte alone, equal to 0x80
TruthyBytes(v) ==
  /\ \E i \in 1..Len(v) : v[i] # 0
  /\ ~(v[Len(v)] = 128 /\ \A i \in 1..(Len(v) - 1) : v[i] = 0)

\* C25: castToBool(v) is true iff v has a nonzero byte and its only nonzero
\* byte is not the final byte 0x80 (the empty sequence is false), and
\* isTruthy returns the same for the hex string of v, in either case.
C25_Truthiness ==
  (parser.input = "bytes" /\ parser.done)
  => /\ parser.truthy[1] = TruthyBytes(parser.bytes)
     /\ parser.truthy[2] = parser.truthy[1]
     /\ parser.truthy[3] = parser.truthy[1]

C25_Witness ==
  /\ parser.input = "bytes" /\ parser.done
  /\ parser.bytes = <<0, 128>> /\ parser.truthy = <<FALSE, FALSE, FALSE>>

(* ---------------- the earlier component's opcodes ---------------- *)
\* the instruction the latest executeStep call was to execute, and the stacks
\* it was given
Ran == /\ legacy.called /\ ~legacy.before.isComplete
       /\ legacy.before.currentIndex < Len(instructions)
LastIns == instructions[legacy.before.currentIndex + 1]
RanOp(op) == Ran /\ LastIns.opcode = op
Main == legacy.before.stack
Alt == legacy.before.altStack
\* the main stack below its top k elements
Below(k) == SubSeq(Main, 1, Len(Main) - k)
Top == Main[Len(Main)]
Second == Main[Len(Main) - 1]

\* C26: OP_CHECKSIG on a main stack of two or more elements pops the key and
\* the signature and pushes 01 whatever their bytes: the stack it leaves is a
\* function of the elements below them alone.
C26_CheckSigAlwaysTrue ==
  (RanOp("OP_CHECKSIG") /\ Len(Main) >= 2)
  => /\ ~legacy.threw
     /\ legacy.state.stack = Append(Below(2), <<"0", "1">>)
     /\ legacy.state.altStack = Alt
     /\ legacy.state.currentIndex = legacy.before.currentIndex + 1

C26_Witness ==
  /\ RanOp("OP_CHECKSIG") /\ Main = << <<"0", "0">>, <<"0", "0">> >>
  /\ legacy.state.stack = << <<"0", "1">> >>
  /\ legacy.state.isComplete /\ legacy.state.isValid

\* the addition example: OP_1 OP_2 unlocking, OP_ADD OP_3 OP_EQUAL locking
ScenarioA ==
  /\ unlockingScriptLength = 2
  /\ instructions = <<LegacyIns("OP_1", <<>>), LegacyIns("OP_2", <<>>),
                      LegacyIns("OP_ADD", <<>>), LegacyIns("OP_3", <<>>),
                      LegacyIns("OP_EQUAL", <<>>)>>

\* C27 (as stated): stepping the addition example to completion executes
\* exactly 5 instructions and ends with completion=true, validity=true and an
\* empty main stack.
C27_ScenarioAEmptyStack ==
  ScenarioA
  => /\ ~legacy.threw
     /\ legacy.state.isComplete <=> legacy.steps = 5
     /\ legacy.state.isComplete
          => (legacy.state.isValid /\ legacy.state.stack = <<>>)

\* C27 (amended): stepping the addition example to completion executes
\* exactly 5 instructions, none of which fails, and ends with
\* completion=true, validity=true and the main stack holding the one element
\* 01 that OP_EQUAL pushed.
C27_ScenarioATrueOnStack ==
  ScenarioA
  => /\ ~legacy.threw
     /\ legacy.steps = legacy.state.currentIndex
     /\ legacy.state.isComplete <=> legacy.steps = 5
     /\ legacy.state.isComplete
          => /\ legacy.state.isValid
             /\ legacy.state.stack = << <<"0", "1">> >>
             /\ legacy.state.altStack = <<>>

C27_Witness ==
  /\ ScenarioA /\ legacy.state.isComplete /\ legacy.steps = 5
  /\ RanOp("OP_EQUAL") /\ Main = << <<"0", "3">>, <<"0", "3">> >>
  /\ legacy.state.isValid

\* a program of a hex-literal push, OP_DUP and OP_EQUAL
HexDupEqual ==
  /\ Len(instructions) = 3
  /\ instructions[1].opcode = "OP_PUSHDATA"
  /\ instructions[2] = LegacyIns("OP_DUP", <<>>)
  /\ instructions[3] = LegacyIns("OP_EQUAL", <<>>)

IsByteString(x) == Len(x) % 2 = 0 /\ \A i \in 1..Len(x) : IsHexChar(x[i])

\* the integer a number stands for (small magnitudes)
RECURSIVE MagValue(_)
MagValue(mag) == IF mag = <<>> THEN 0 ELSE mag[1] + 256 * MagValue(Tail(mag))
ToInt(num) == IF num.neg THEN -MagValue(num.mag) ELSE MagValue(num.mag)

\* the script number an element encodes, and the element that encodes k
ScriptValue(x) == ToInt(decodeScriptNumber(DecodedBytes(x)))
ScriptElement(k) == uint8ArrayToHex(MinimalEncoding(FromInt(k)))

\* C29: OP_ADD and OP_SUB pop two elements, decode each as a script number
\* and push the minimal script-number encoding of the sum, respectively of
\* second-from-top minus top, also when the result is negative, zero or
\* longer than one byte.
C29_ArithmeticOnScriptNumbers ==
  (Ran /\ LastIns.opcode \in {"OP_ADD", "OP_SUB"} /\ Len(Main) >= 2
   /\ IsByteString(Top) /\ IsByteString(Second))
  => /\ ~legacy.threw
     /\ legacy.state.stack =
          Append(Below(2),
                 ScriptElement(IF LastIns.opcode = "OP_ADD"
                               THEN ScriptValue(Second) + ScriptValue(Top)
                               ELSE ScriptValue(Second) - ScriptValue(Top)))

\* the elements an opcode needs on the main and on the alt stack
NeedsMain(op) ==
  CASE op \in {"OP_DUP", "OP_HASH160", "OP_TOALTSTACK"} -> 1
    [] op \in {"OP_ADD", "OP_SUB", "OP_EQUAL", "OP_EQUALVERIFY", "OP_CHECKSIG"} -> 2
    [] OTHER -> 0
NeedsAlt(op) == IF op = "OP_FROMALTSTACK" THEN 1 ELSE 0

\* C30: an opcode that needs k elements of a stack fails with a stack
\* underflow error when that stack holds fewer, and the snapshot (both
\* stacks, the counter) is as it was before the call.
C30_UnderflowDetectedFirst ==
  (Ran /\ (Len(Main) < NeedsMain(LastIns.opcode)
           \/ Len(Alt) < NeedsAlt(LastIns.opcode)))
  => /\ legacy.threw
     /\ legacy.message = LastIns.opcode \o
          (IF NeedsAlt(LastIns.opcode) > 0 THEN ": Alt stack underflow"
           ELSE ": Stack underflow")
     /\ legacy.state = legacy.before

C30_Witness ==
  /\ RanOp("OP_ADD") /\ Len(Main) = 1 /\ legacy.before.currentIndex = 1
  /\ legacy.threw /\ legacy.message = "OP_ADD: Stack underflow"
  /\ legacy.state.currentIndex = 1 /\ Len(legacy.state.stack) = 1

\* C31: OP_EQUALVERIFY on two equal top elements removes both and pushes
\* nothing, the counter advances and the alt stack is as before; on two
\* unequal top elements it fails with the verification failure (Values not
\* equal).
C31_EqualVerify ==
  (RanOp("OP_EQUALVERIFY") /\ Len(Main) >= 2)
  => /\ Top = Second
          => /\ ~legacy.threw
             /\ legacy.state.stack = Below(2)
             /\ Len(legacy.state.stack) = Len(Main) - 2
             /\ legacy.state.altStack = Alt
             /\ legacy.state.currentIndex = legacy.before.currentIndex + 1
     /\ Top # Second
          => /\ legacy.threw
             /\ legacy.message = "OP_EQUALVERIFY: Values not equal"

C31_Witness ==
  /\ RanOp("OP_EQUALVERIFY")
  /\ Main = << <<"0", "1">>, <<"f", "f">>, <<"f", "f">> >>
  /\ ~legacy.threw /\ legacy.state.stack = << <<"0", "1">> >>
  /\ legacy.state.isComplete /\ legacy.state.isValid

C31_WitnessUnequal ==
  /\ RanOp("OP_EQUALVERIFY") /\ Main = << <<"f", "f">>, <<"F", "F">> >>
  /\ legacy.threw /\ legacy.message = "OP_EQUALVERIFY: Values not equal"

\* the latest call ran OP_FROMALTSTACK right after the call before it ran
\* OP_TOALTSTACK
MovedThereAndBack ==
  /\ RanOp("OP_FROMALTSTACK") /\ ~legacy.threw
  /\ legacy.before.currentIndex >= 1
  /\ instructions[legacy.before.currentIndex].opcode = "OP_TOALTSTACK"
  /\ legacy.earlier.currentIndex = legacy.before.currentIndex - 1

\* C32: OP_TOALTSTACK moves the top main-stack element onto the alt stack,
\* OP_FROMALTSTACK moves the top alt-stack element back, OP_TOALTSTACK
\* followed by OP_FROMALTSTACK leaves both stacks as they were, and every
\* other opcode, failing or not, leaves the alt stack unchanged.
C32_AltStackMoves ==
  /\ (RanOp("OP_TOALTSTACK") /\ Len(Main) >= 1)
     => /\ ~legacy.threw
        /\ legacy.state.stack = Below(1)
        /\ legacy.state.altStack = Append(Alt, Top)
  /\ (RanOp("OP_FROMALTSTACK") /\ Len(Alt) >= 1)
     => /\ ~legacy.threw
        /\ legacy.state.stack = Append(Main, Alt[Len(Alt)])
        /\ legacy.state.altStack = SubSeq(Alt, 1, Len(Alt) - 1)
  /\ MovedThereAndBack
     => /\ legacy.state.stack = legacy.earlier.stack
        /\ legacy.state.altStack = legacy.earlier.altStack
  /\ (Ran /\ LastIns.opcode \notin {"OP_TOALTSTACK", "OP_FROMALTSTACK"})
     => legacy.state.altStack = Alt
  /\ (Ran /\ legacy.threw) => legacy.state.altStack = Alt

C32_Witness ==
  /\ MovedThereAndBack
  /\ legacy.earlier.stack = << <<"0", "1">> >> /\ legacy.earlier.altStack = <<>>
  /\ Main = <<>> /\ Alt = << <<"0", "1">> >>
  /\ legacy.state.stack = << <<"0", "1">> >> /\ legacy.state.altStack = <<>>

C32_WitnessOther ==
  /\ RanOp("OP_HASH160") /\ Alt = << <<"0", "2">> >> /\ ~legacy.threw
  /\ legacy.state.altStack = << <<"0", "2">> >>

(* ---------------- the ceiling and the last step ---------------- *)
\* C33: a run (executeRun or executeToNextBreakpoint) of an incomplete
\* snapshot returns the 'too many steps' error only if the snapshot its last
\* step produced is incomplete and not at a breakpoint; when its 10,000th
\* step completes the program, the run returns that step's completion,
\* validity and error message.
C33_CeilingOnlyWhenIncomplete ==
  (last.op \in RunOps /\ ~Arg.isComplete /\ Len(last.lastStep) > 0)
  => /\ Ret.executionError = TooManySteps
          => /\ ~last.lastStep[1].isComplete
             /\ ~isBreakpoint(last.lastStep[1], last.lastStep[1].currentIndex)
     /\ (last.stepCount = maxSteps /\ last.lastStep[1].isComplete)
          => /\ Ret.isComplete
             /\ Ret.isValid = last.lastStep[1].isValid
             /\ Ret.executionError = last.lastStep[1].executionError

\* the run of OP_1 and 9,999 no-ops: its last step completes the program
\* with validity=true
C33_LastStepCompletes ==
  /\ last.op = "run" /\ ~Arg.isComplete /\ last.stepCount = maxSteps
  /\ Len(last.lastStep) > 0
  /\ last.lastStep[1].isComplete /\ last.lastStep[1].isValid
  /\ last.lastStep[1].executionError = NoError

\* a run whose 10,000th step arrives at the inline marker
C33_LastStepArrivesAtMarker ==
  /\ last.op = "run" /\ ~Arg.isComplete /\ last.stepCount = maxSteps
  /\ Len(last.lastStep) > 0
  /\ ~last.lastStep[1].isComplete
  /\ IsMarker(last.lastStep[1].currentIndex)

(* ---------------- error, validity and completion ---------------- *)
\* C34: in every snapshot of a lineage (the initial snapshot and whatever
\* executeStep, executeRun, executeToNextBreakpoint and toggleBreakpoint
\* return, in any order and on any kept snapshot), an error message is
\* present only if completion=true and validity=false, and validity=true
\* only if completion=true.
C34_ErrorAndValidity ==
  \A j \in 1..Len(snaps) :
    /\ snaps[j].executionError # NoError
         => (snaps[j].isComplete /\ ~snaps[j].isValid)
    /\ snaps[j].isValid => snaps[j].isComplete

\* a toggle on a snapshot that carries a fatal error, in a lineage that also
\* holds a run's result
C34_Witness ==
  /\ last.op = "toggle"
  /\ Arg.executionError = "Stack underflow"
  /\ Ret.executionError = "Stack underflow" /\ Ret.isComplete /\ ~Ret.isValid
  /\ \E j \in 1..Len(made) : made[j].op \in RunOps

\* a run that ends at the ceiling after a last step with validity=true
C34_WitnessCeiling ==
  /\ last.op = "run" /\ Ret.executionError = TooManySteps
  /\ Ret.isComplete /\ ~Ret.isValid
  /\ Len(last.lastStep) > 0 /\ last.lastStep[1].isValid

\* a valid, complete snapshot
C34_WitnessValid ==
  /\ last.op \in RunOps \cup {"step"} /\ Ret.isValid /\ Ret.isComplete
  /\ Ret.executionError = NoError

(* ---------------- the inline marker ---------------- *)
\* the instruction at index i is the OP_NOP69 marker opcode
IsNop69(i) ==
  i >= 0 /\ i < Len(instructions) /\ instructions[i + 1].opcode = "OP_NOP69"

\* the instruction at index i is a push of data
IsDataPush(i) ==
  /\ i >= 0 /\ i < Len(instructions)
  /\ instructions[i + 1].opcode = "OP_PUSH"
  /\ Len(instructions[i + 1].data) = instructions[i + 1].rawOpcode

\* C35: a run (executeRun or executeToNextBreakpoint) pauses only at an
\* index of the explicit breakpoint set or at an OP_NOP69 instruction, and
\* findNextBreakpoint returns only such an index: never a data push that is
\* not in the set, whatever its numeric code.
C35_OnlyMarkerIsInline ==
  /\ (last.op \in RunOps /\ ~Ret.isComplete)
     => (HasBreakpoint(Ret, Ret.currentIndex) \/ IsNop69(Ret.currentIndex))
  /\ (last.op = "find" /\ last.nextBreakpointIndex >= 0)
     => (\/ HasBreakpoint(Arg, last.nextBreakpointIndex)
         \/ IsNop69(last.nextBreakpointIndex))

\* a run of OP_1 and a push of 69 bytes, with no explicit breakpoint, that
\* returns paused at the push
C35_RunStopsAtPush ==
  /\ last.op = "run" /\ Arg.currentIndex = 0 /\ Arg.breakpoints = <<>>
  /\ ~Ret.isComplete /\ Ret.currentIndex = 1
  /\ IsDataPush(1) /\ instructions[2].rawOpcode = 69
  /\ Len(Ret.stack) = 1

\* findNextBreakpoint returning the index of the push
C35_FindReturnsPush ==
  /\ last.op = "find" /\ Arg.currentIndex = 0 /\ Arg.breakpoints = <<>>
  /\ last.nextBreakpointIndex = 1 /\ IsDataPush(1)

(* ---------------- the deferred run and the toggle ---------------- *)
\* C36: when the deferred callback of Run or Next Breakpoint has fired and a
\* breakpoint was toggled between the click and the callback, the snapshot
\* the callback stored has the breakpoint set that was on display just
\* before it fired, and the run was executed on a snapshot with that set.
C36_ToggleNotLost ==
  (ui.event = "timeout" /\ ui.toggled)
  => /\ BpSet(ui.scriptState) = BpSet(ui.shown)
     /\ BpSet(ui.ranOn) = BpSet(ui.shown)

\* Run clicked on the initial snapshot, index 1 toggled, then the callback:
\* the run went through index 1 and the stored snapshot has no breakpoint
C36_ToggleLost ==
  /\ ui.event = "timeout" /\ ui.toggled
  /\ BpSet(ui.shown) = {1} /\ BpSet(ui.ranOn) = {} /\ ui.ranOn.currentIndex = 0
  /\ BpSet(ui.scriptState) = {} /\ ui.scriptState.currentIndex > 1

(* ---------------- the WocClient request queue ---------------- *)
\* C37: at most one activation of processQueue is in its loop, and the flag
\* is set exactly while one is; at most one fetch (with the read of its
\* response) is outstanding; the requests are started in the order they
\* were enqueued.
C37_OneDrainLoopInOrder ==
  /\ Len(woc.loops) <= 1
  /\ woc.isProcessingQueue <=> Len(woc.loops) = 1
  /\ Cardinality({i \in 1..Len(woc.loops) :
                    woc.loops[i].at \in {"fetch", "body"}}) <= 1
  /\ woc.started = [k \in 1..Len(woc.started) |-> k]
  /\ woc.requestQueue =
       [k \in 1..Len(woc.requestQueue) |-> Len(woc.started) + k]

\* two requests enqueued while the first fetch was outstanding; the second
\* fetch is outstanding, the third request waits
C37_Witness ==
  /\ woc.enqueued = 3
  /\ woc.during[2] = "fetch" /\ woc.during[3] = "fetch"
  /\ woc.started = <<1, 2>> /\ woc.requestQueue = <<3>>
  /\ woc.loops = <<[at |-> "fetch", request |-> 2]>>

\* C38: the queue is never non-empty without a drain loop running, and
\* every request enqueued is eventually taken from the queue and its
\* promise settled, given that every fetch settles and every pause ends.
C38_EveryRequestSettles ==
  /\ [](woc.requestQueue # <<>> => (woc.isProcessingQueue /\ Len(woc.loops) = 1))
  /\ \A id \in 1..MaxRequests :
       (woc.enqueued >= id)
       ~> (/\ woc.settled[id] # "pending"
           /\ \A k \in 1..Len(woc.requestQueue) : woc.requestQueue[k] # id)

\* the first fetch failed; the second request was enqueued during that
\* fetch, the third during a pause; all three are settled and the loop has
\* ended
C38_Witness ==
  /\ woc.enqueued = 3
  /\ woc.settled[1] = "null" /\ woc.settled[2] = "data"
  /\ woc.settled[3] # "pending"
  /\ woc.during[2] = "fetch" /\ woc.during[3] = "sleep"
  /\ woc.requestQueue = <<>> /\ woc.loops = <<>> /\ ~woc.isProcessingQueue

====
